---- MODULE Spec2Model ----
(***************************************************************************)
(* Model of the leads CRM data-access module (services/googleSheetsApi):   *)
(* date/time parsing, the sortable timestamp, the chronological sort, the  *)
(* display formatters, the record normaliser, the filter, and the two      *)
(* remote operations fetchLeads / addLead.                                 *)
(*                                                                         *)
(* Conventions                                                             *)
(*  - A JavaScript string is a sequence of one-character strings, so that  *)
(*    the regular expressions, split, padStart and template literals of    *)
(*    the code are computed character by character.                        *)
(*  - A JavaScript value that may be a string, a number or absent is a     *)
(*    record [t, s, n] (type tag, string payload, number payload).         *)
(*  - A time value (the number inside a Date, epoch milliseconds) is kept  *)
(*    in mixed radix as [day, ms]: it denotes day * MsPerDay + ms with     *)
(*    0 <= ms < MsPerDay.  The encoding is exact; it only keeps the        *)
(*    numbers inside the model checker's integers.                         *)
(*  - tz is the runtime's local offset from UTC in minutes (east positive),*)
(*    a fixed offset without daylight saving.                              *)
(***************************************************************************)
EXTENDS Integers, Sequences, FiniteSets, TLC

(***************************************************************************)
(* Characters and strings                                                  *)
(***************************************************************************)
DigitChars == <<"0", "1", "2", "3", "4", "5", "6", "7", "8", "9">>

IsDigit(c) == \E i \in 1..10 : DigitChars[i] = c

DigitVal(c) == (CHOOSE i \in 1..10 : DigitChars[i] = c) - 1

AllDigits(s) == \A i \in 1..Len(s) : IsDigit(s[i])

\* parseInt(s, 10) of a string of decimal digits
RECURSIVE parseInt(_)
parseInt(s) ==
  IF s = <<>> THEN 0
  ELSE parseInt(SubSeq(s, 1, Len(s) - 1)) * 10 + DigitVal(s[Len(s)])

\* Number.prototype.toString() of a non-negative integer
RECURSIVE toString(_)
toString(n) ==
  IF n < 10 THEN <<DigitChars[n + 1]>>
  ELSE toString(n \div 10) \o <<DigitChars[(n % 10) + 1]>>

\* String.prototype.padStart(width, c)
RECURSIVE padStart(_, _, _)
padStart(s, width, c) ==
  IF Len(s) >= width THEN s ELSE padStart(<<c>> \o s, width, c)

\* String.prototype.includes(c) for a one-character needle
includes(s, c) == \E i \in 1..Len(s) : s[i] = c

\* String.prototype.split(sep) for a one-character separator
RECURSIVE split(_, _)

\* the part before the first separator (at index i), then the split of the rest
splitAt(s, sep, i) ==
  <<SubSeq(s, 1, i - 1)>> \o split(SubSeq(s, i + 1, Len(s)), sep)

split(s, sep) ==
  IF ~includes(s, sep) THEN <<s>>
  ELSE splitAt(s, sep, CHOOSE k \in 1..Len(s) :
                          s[k] = sep /\ \A j \in 1..(k - 1) : s[j] # sep)

(***************************************************************************)
(* JavaScript values                                                       *)
(***************************************************************************)
Undefined == [t |-> "undefined", s |-> <<>>, n |-> 0]

Str(s) == [t |-> "string", s |-> s, n |-> 0]

Num(n) == [t |-> "number", s |-> <<>>, n |-> n]

\* ToBoolean: undefined, '' and 0 are falsy
Truthy(v) ==
  \/ v.t = "string" /\ v.s # <<>>
  \/ v.t = "number" /\ v.n # 0

\* a || b
Or(a, b) == IF Truthy(a) THEN a ELSE b

(***************************************************************************)
(* ECMAScript Date arithmetic                                              *)
(***************************************************************************)
MsPerDay == 86400000

MsPerHour == 3600000

MsPerMinute == 60000

MsPerSecond == 1000

\* a time value in mixed radix; NaN is the invalid time value
NaN == [valid |-> FALSE, day |-> 0, ms |-> 0]

TV(day, ms) ==
  [valid |-> TRUE, day |-> day + (ms \div MsPerDay), ms |-> ms % MsPerDay]

IsLeap(y) == (y % 4 = 0 /\ y % 100 # 0) \/ y % 400 = 0

DaysInMonth(y, m) ==
  IF m = 2 THEN (IF IsLeap(y) THEN 29 ELSE 28)
  ELSE IF m \in {4, 6, 9, 11} THEN 30 ELSE 31

\* day number (days since 1970-01-01) of the civil date y-m-d, m in 1..12,
\* from the year yy counted from March and the month mp counted from March
DayOfEra(yoe, mp, d) ==
  yoe * 365 + (yoe \div 4) - (yoe \div 100) + ((153 * mp + 2) \div 5) + d - 1

DaysFromMarchYear(yy, mp, d) ==
  (yy \div 400) * 146097 + DayOfEra(yy % 400, mp, d) - 719468

DaysFromCivil(y, m, d) ==
  DaysFromMarchYear(IF m <= 2 THEN y - 1 ELSE y,
                    IF m > 2 THEN m - 3 ELSE m + 9, d)

\* the civil date [y, m, d] (m in 1..12) of a day number
CivilOfMonth(yy, doy, mp) ==
  [y |-> yy + (IF mp < 10 THEN 0 ELSE 1),
   m |-> IF mp < 10 THEN mp + 3 ELSE mp - 9,
   d |-> doy - ((153 * mp + 2) \div 5) + 1]

CivilOfDayOfYear(yy, doy) == CivilOfMonth(yy, doy, (5 * doy + 2) \div 153)

CivilOfYearOfEra(era, doe, yoe) ==
  CivilOfDayOfYear(yoe + era * 400,
                   doe - (365 * yoe + (yoe \div 4) - (yoe \div 100)))

CivilOfDayOfEra(era, doe) ==
  CivilOfYearOfEra(era, doe,
    (doe - (doe \div 1460) + (doe \div 36524) - (doe \div 146096)) \div 365)

CivilFromDays(z) ==
  CivilOfDayOfEra((z + 719468) \div 146097, (z + 719468) % 146097)

\* MakeDay(year, month, date): month is 0-based and may lie outside 0..11,
\* date may lie outside the month; both roll over
MakeDay(year, month, date) ==
  DaysFromCivil(year + (month \div 12), (month % 12) + 1, 1) + date - 1

\* LocalTime(t) / UTC(t) for the fixed offset tz (minutes)
LocalTime(t, tz) == TV(t.day, t.ms + tz * MsPerMinute)

\* new Date(year, month, day, h, mi, s, ms): local components; a year in
\* 0..99 means 1900 + year
NewDateLocal(year, month, day, h, mi, s, ms, tz) ==
  TV(MakeDay(IF year \in 0..99 THEN 1900 + year ELSE year, month, day),
     h * MsPerHour + mi * MsPerMinute + s * MsPerSecond + ms
       - tz * MsPerMinute)

getFullYear(t, tz) == CivilFromDays(LocalTime(t, tz).day).y

\* 0-based month
getMonth(t, tz) == CivilFromDays(LocalTime(t, tz).day).m - 1

getDate(t, tz) == CivilFromDays(LocalTime(t, tz).day).d

getUTCHours(t) == t.ms \div MsPerHour

getUTCMinutes(t) == (t.ms % MsPerHour) \div MsPerMinute

getUTCSeconds(t) == (t.ms % MsPerMinute) \div MsPerSecond

\* Date.prototype.setHours(h, mi, s, ms): replaces the local time of day,
\* keeps the local day; out-of-range components roll over
setHours(t, h, mi, s, ms, tz) ==
  TV(LocalTime(t, tz).day,
     h * MsPerHour + mi * MsPerMinute + s * MsPerSecond + ms
       - tz * MsPerMinute)

(***************************************************************************)
(* Date.parse / new Date(string)                                           *)
(*                                                                         *)
(* ECMAScript fixes the result for the ISO 8601 forms only:                *)
(*   YYYY-MM-DD                      (UTC midnight)                        *)
(*   YYYY-MM-DDTHH:MM[:SS[.sss]]Z    (UTC)                                 *)
(*   YYYY-MM-DDTHH:MM[:SS[.sss]]     (local time)                          *)
(* with a real calendar day and an in-range time of day.  Every other      *)
(* string is left to the engine; the strings the specifications below draw *)
(* are either of these forms or strings every engine rejects (NaN).        *)
(***************************************************************************)
IsoDateFields(p) ==
  /\ Len(p) = 3
  /\ Len(p[1]) = 4 /\ Len(p[2]) = 2 /\ Len(p[3]) = 2
  /\ AllDigits(p[1]) /\ AllDigits(p[2]) /\ AllDigits(p[3])
  /\ parseInt(p[2]) \in 1..12
  /\ parseInt(p[3]) \in 1..DaysInMonth(parseInt(p[1]), parseInt(p[2]))

IsoDatePart(s) == IsoDateFields(split(s, "-"))

IsoDateFieldsDay(p) ==
  DaysFromCivil(parseInt(p[1]), parseInt(p[2]), parseInt(p[3]))

IsoDateDay(s) == IsoDateFieldsDay(split(s, "-"))

\* the time part without its trailing Z
IsoTimeBody(s) ==
  IF s # <<>> /\ s[Len(s)] = "Z" THEN SubSeq(s, 1, Len(s) - 1) ELSE s

IsoSecondFields(q) ==
  /\ Len(q) \in 1..2
  /\ Len(q[1]) = 2 /\ AllDigits(q[1]) /\ parseInt(q[1]) \in 0..59
  /\ Len(q) = 2 => (Len(q[2]) = 3 /\ AllDigits(q[2]))

IsoSecondMs(q) ==
  parseInt(q[1]) * MsPerSecond + (IF Len(q) = 2 THEN parseInt(q[2]) ELSE 0)

\* HH:mm, HH:mm:ss or HH:mm:ss.sss
IsoTimeFieldsMs(p) ==
  parseInt(p[1]) * MsPerHour + parseInt(p[2]) * MsPerMinute
    + (IF Len(p) = 3 THEN IsoSecondMs(split(p[3], ".")) ELSE 0)

\* the hour 24 is legal with minutes, seconds and milliseconds 0 only: it
\* is the midnight that ends the day
IsoTimeFields(p) ==
  /\ Len(p) \in 2..3
  /\ Len(p[1]) = 2 /\ AllDigits(p[1]) /\ parseInt(p[1]) \in 0..24
  /\ Len(p[2]) = 2 /\ AllDigits(p[2]) /\ parseInt(p[2]) \in 0..59
  /\ Len(p) = 3 => IsoSecondFields(split(p[3], "."))
  /\ parseInt(p[1]) = 24 => IsoTimeFieldsMs(p) = MsPerDay

IsoTimePart(s) == IsoTimeFields(split(IsoTimeBody(s), ":"))

IsoTimeMs(s) == IsoTimeFieldsMs(split(IsoTimeBody(s), ":"))

\* the time value of a valid ISO date, and time of day ms, read as UTC or local
IsoTimeValue(day, ms, utc, tz) ==
  IF utc THEN TV(day, ms) ELSE TV(day, ms - tz * MsPerMinute)

DateParseFields(p, tz) ==
  IF Len(p) = 1 /\ IsoDatePart(p[1]) THEN TV(IsoDateDay(p[1]), 0)
  ELSE IF Len(p) = 2 /\ IsoDatePart(p[1]) /\ IsoTimePart(p[2])
  THEN IsoTimeValue(IsoDateDay(p[1]), IsoTimeMs(p[2]), p[2][Len(p[2])] = "Z", tz)
  ELSE NaN

DateParse(s, tz) == DateParseFields(split(s, "T"), tz)

\* new Date(value): a number is the time value itself, a string is parsed
NewDate(v, tz) ==
  IF v.t = "number" THEN TV(0, v.n)
  ELSE IF v.t = "string" THEN DateParse(v.s, tz)
  ELSE NaN

(***************************************************************************)
(* The regular expressions of the parsers                                  *)
(***************************************************************************)
\* /^\d{1,2}\/\d{1,2}\/\d{4}$/
DMYFields(p) ==
  /\ Len(p) = 3
  /\ Len(p[1]) \in 1..2 /\ Len(p[2]) \in 1..2 /\ Len(p[3]) = 4
  /\ AllDigits(p[1]) /\ AllDigits(p[2]) /\ AllDigits(p[3])

MatchesDMY(s) == DMYFields(split(s, "/"))

\* /^\d{4}-\d{2}-\d{2}$/
YMDFields(p) ==
  /\ Len(p) = 3
  /\ Len(p[1]) = 4 /\ Len(p[2]) = 2 /\ Len(p[3]) = 2
  /\ AllDigits(p[1]) /\ AllDigits(p[2]) /\ AllDigits(p[3])

MatchesYMD(s) == YMDFields(split(s, "-"))

\* /^\d{1,2}:\d{2}(:\d{2})?$/
HMSFields(p) ==
  /\ Len(p) \in 2..3
  /\ Len(p[1]) \in 1..2 /\ AllDigits(p[1])
  /\ \A i \in 2..Len(p) : Len(p[i]) = 2 /\ AllDigits(p[i])

MatchesHMS(s) == HMSFields(split(s, ":"))

(***************************************************************************)
(* Date Parser and Time Parser                                             *)
(***************************************************************************)
\* the result null of parseDate: both revisions return either null or a
\* Date holding a valid time value, so null is the record with valid FALSE
null == [valid |-> FALSE, day |-> 0, ms |-> 0]

\* new Date(y, m, d, 0, 0, 0, 0) of a civil date c (c.m in 1..12)
LocalMidnight(c, tz) == NewDateLocal(c.y, c.m - 1, c.d, 0, 0, 0, 0, tz)

\* the local midnight of the local day of d:
\* new Date(d.getFullYear(), d.getMonth(), d.getDate(), 0, 0, 0, 0)
StripTime(d, tz) == LocalMidnight(CivilFromDays(LocalTime(d, tz).day), tz)

\* const parts = dateStr.split('/'); day, month - 1, year
parseDateDMY(parts, tz) ==
  NewDateLocal(parseInt(parts[3]), parseInt(parts[2]) - 1, parseInt(parts[1]),
               0, 0, 0, 0, tz)

\* const parts = dateStr.split('-'); year, month - 1, day
parseDateYMD(parts, tz) ==
  NewDateLocal(parseInt(parts[1]), parseInt(parts[2]) - 1, parseInt(parts[3]),
               0, 0, 0, 0, tz)

\* the ISO branch and the direct-parsing branch, date being new Date(dateStr)
parseDateGeneric(dateStr, date, tz) ==
  IF dateStr.t = "string" /\ includes(dateStr.s, "T") /\ date.valid
  THEN StripTime(date, tz)
  ELSE IF date.valid THEN StripTime(date, tz)
  ELSE null

parseDate(dateStr, tz) ==
  IF ~Truthy(dateStr) THEN null
  ELSE IF dateStr.t = "string" /\ MatchesDMY(dateStr.s)
  THEN parseDateDMY(split(dateStr.s, "/"), tz)
  ELSE IF dateStr.t = "string" /\ MatchesYMD(dateStr.s)
  THEN parseDateYMD(split(dateStr.s, "-"), tz)
  ELSE parseDateGeneric(dateStr, NewDate(dateStr, tz), tz)

\* the result null of parseTime
noTime == [ok |-> FALSE, hours |-> 0, minutes |-> 0, seconds |-> 0]

ClockTime(h, m, s) == [ok |-> TRUE, hours |-> h, minutes |-> m, seconds |-> s]

\* const parts = timeStr.split(':'); seconds from parts[2] || '0'
parseTimeHMS(parts) ==
  ClockTime(parseInt(parts[1]), parseInt(parts[2]),
            IF Len(parts) >= 3 THEN parseInt(parts[3]) ELSE parseInt(<<"0">>))

\* a time parser whose ISO branch reads the local fields getHours,
\* getMinutes, getSeconds
parseTimeLocalFields(timeStr, tz) ==
  IF ~Truthy(timeStr) THEN noTime
  ELSE IF timeStr.t = "string" /\ MatchesHMS(timeStr.s)
  THEN parseTimeHMS(split(timeStr.s, ":"))
  ELSE IF timeStr.t = "string" /\ includes(timeStr.s, "T") /\ NewDate(timeStr, tz).valid
  THEN ClockTime(getUTCHours(LocalTime(NewDate(timeStr, tz), tz)),
                 getUTCMinutes(LocalTime(NewDate(timeStr, tz), tz)),
                 getUTCSeconds(LocalTime(NewDate(timeStr, tz), tz)))
  ELSE noTime

\* the ISO branch, date being new Date(timeStr)
parseTimeISO(timeStr, date) ==
  IF timeStr.t = "string" /\ includes(timeStr.s, "T") /\ date.valid
  THEN ClockTime(getUTCHours(date), getUTCMinutes(date), getUTCSeconds(date))
  ELSE noTime

parseTime(timeStr, tz) ==
  IF ~Truthy(timeStr) THEN noTime
  ELSE IF timeStr.t = "string" /\ MatchesHMS(timeStr.s)
  THEN parseTimeHMS(split(timeStr.s, ":"))
  ELSE parseTimeISO(timeStr, NewDate(timeStr, tz))

(***************************************************************************)
(* Timestamp Combiner                                                      *)
(***************************************************************************)
\* the number 0 as a time value
Zero == [valid |-> TRUE, day |-> 0, ms |-> 0]

\* the combination of a parsed date and a parsed time
combineDateTime(date, time, tz) ==
  IF ~date.valid THEN Zero
  ELSE IF time.ok
  THEN setHours(date, time.hours, time.minutes, time.seconds, 0, tz)
  ELSE date

\* the combination without the guard `if (!date) return 0`
combineDateTimeNoGuard(date, time, tz) ==
  IF time.ok /\ date.valid
  THEN setHours(date, time.hours, time.minutes, time.seconds, 0, tz)
  ELSE date

\* createSortableTimestamp without the guard `if (!date) return 0`
createSortableTimestampNoGuard(dateStr, timeStr, tz) ==
  combineDateTimeNoGuard(parseDate(dateStr, tz), parseTime(timeStr, tz), tz)

createSortableTimestamp(dateStr, timeStr, tz) ==
  combineDateTime(parseDate(dateStr, tz), parseTime(timeStr, tz), tz)

\* a < b, a <= b and the sign of a - b on time values
TsLess(a, b) == a.day < b.day \/ (a.day = b.day /\ a.ms < b.ms)

TsLeq(a, b) == a = b \/ TsLess(a, b)

TsSign(a, b) == IF TsLess(a, b) THEN -1 ELSE IF TsLess(b, a) THEN 1 ELSE 0

(***************************************************************************)
(* The earlier revision of the module (src/unnamed/part_000): its parsers  *)
(* and its combiner parseDateTime.  Names shared with the later revision   *)
(* carry the suffix _000.                                                  *)
(***************************************************************************)
\* (the branch for a Date object is not modelled: a field of a lead parsed
\* from JSON is never a Date)
extractTimeComponents(timeStr, tz) ==
  IF ~Truthy(timeStr) THEN noTime
  ELSE IF timeStr.t = "string" /\ MatchesHMS(timeStr.s)
  THEN parseTimeHMS(split(timeStr.s, ":"))
  ELSE parseTimeISO(timeStr, NewDate(timeStr, tz))

\* the ISO branch: the Date new Date(dateStr) gave, time of day included
parseDateGeneric_000(date) == IF date.valid THEN date ELSE null

parseDate_000(dateStr, tz) ==
  IF ~Truthy(dateStr) THEN null
  ELSE IF dateStr.t = "string" /\ MatchesDMY(dateStr.s)
  THEN parseDateDMY(split(dateStr.s, "/"), tz)
  ELSE parseDateGeneric_000(NewDate(dateStr, tz))

\* date.setHours(h, m, s) leaves the milliseconds of the date as they are
combineDateTime_000(date, time, tz) ==
  IF ~date.valid THEN Zero
  ELSE IF time.ok
  THEN setHours(date, time.hours, time.minutes, time.seconds,
                LocalTime(date, tz).ms % MsPerSecond, tz)
  ELSE date

parseDateTime(dateStr, timeStr, tz) ==
  combineDateTime_000(parseDate_000(dateStr, tz),
                      extractTimeComponents(timeStr, tz), tz)

(***************************************************************************)
(* Collection Sorter                                                       *)
(*                                                                         *)
(* Arrays and the lead objects they hold are references: objects[r] is the *)
(* lead object with reference r, arrays[a] is the array with reference a,  *)
(* a sequence of lead references.  A heap is the record of both.           *)
(***************************************************************************)
\* the comparator with its operands swapped: timestampB - timestampA
compareLeadsDescending(a, b, tz) ==
  TsSign(createSortableTimestamp(b.date, b.time, tz),
         createSortableTimestamp(a.date, a.time, tz))

\* a comparator that never answers 0: timestampA < timestampB ? -1 : 1
compareLeadsNoTie(a, b, tz) ==
  IF TsLess(createSortableTimestamp(a.date, a.time, tz),
            createSortableTimestamp(b.date, b.time, tz))
  THEN -1 ELSE 1

\* the comparator (a, b) => timestampA - timestampB, by its sign
compareLeads(a, b, tz) ==
  TsSign(createSortableTimestamp(a.date, a.time, tz),
         createSortableTimestamp(b.date, b.time, tz))

\* Array.prototype.sort(comparefn): a stable sort (ECMAScript 2019), here by
\* insertion; refs is the array's content, objs the lead objects
RECURSIVE InsertRef(_, _, _, _)
InsertRef(sorted, x, objs, tz) ==
  IF sorted = <<>> THEN <<x>>
  ELSE IF compareLeads(objs[sorted[Len(sorted)]], objs[x], tz) > 0
  THEN Append(InsertRef(SubSeq(sorted, 1, Len(sorted) - 1), x, objs, tz),
              sorted[Len(sorted)])
  ELSE Append(sorted, x)

RECURSIVE ArraySort(_, _, _)
ArraySort(refs, objs, tz) ==
  IF refs = <<>> THEN <<>>
  ELSE InsertRef(ArraySort(SubSeq(refs, 1, Len(refs) - 1), objs, tz),
                 refs[Len(refs)], objs, tz)

\* leads.sort(...) without the copy: the argument itself is sorted and
\* returned
sortLeadsInPlace(heap, leads, tz) ==
  [heap |-> [objects |-> heap.objects,
             arrays  |-> [heap.arrays EXCEPT
                            ![leads] = ArraySort(heap.arrays[leads], heap.objects, tz)]],
   ret  |-> leads]

\* [...leads].sort(...): a new array holding the same lead references is
\* allocated and sorted; the result is the heap after the call and the
\* reference returned
sortLeadsByDateTime(heap, leads, tz) ==
  [heap |-> [objects |-> heap.objects,
             arrays  |-> Append(heap.arrays,
                                ArraySort(heap.arrays[leads], heap.objects, tz))],
   ret  |-> Len(heap.arrays) + 1]

\* the earlier revision: the same sorter over parseDateTime
compareLeads_000(a, b, tz) ==
  TsSign(parseDateTime(a.date, a.time, tz), parseDateTime(b.date, b.time, tz))

RECURSIVE InsertRef_000(_, _, _, _)
InsertRef_000(sorted, x, objs, tz) ==
  IF sorted = <<>> THEN <<x>>
  ELSE IF compareLeads_000(objs[sorted[Len(sorted)]], objs[x], tz) > 0
  THEN Append(InsertRef_000(SubSeq(sorted, 1, Len(sorted) - 1), x, objs, tz),
              sorted[Len(sorted)])
  ELSE Append(sorted, x)

RECURSIVE ArraySort_000(_, _, _)
ArraySort_000(refs, objs, tz) ==
  IF refs = <<>> THEN <<>>
  ELSE InsertRef_000(ArraySort_000(SubSeq(refs, 1, Len(refs) - 1), objs, tz),
                     refs[Len(refs)], objs, tz)

sortLeadsByDateTime_000(heap, leads, tz) ==
  [heap |-> [objects |-> heap.objects,
             arrays  |-> Append(heap.arrays,
                                ArraySort_000(heap.arrays[leads], heap.objects, tz))],
   ret  |-> Len(heap.arrays) + 1]

(***************************************************************************)
(* Display Formatter                                                       *)
(***************************************************************************)
\* the placeholder '-'
Dash == <<"-">>

\* the template `${day}/${month}/${year}`
DateTemplate(day, month, year) == day \o <<"/">> \o month \o <<"/">> \o year

\* the rendering of a parsed date; the year is interpolated as it is
formatParsedDate(date, tz) ==
  IF ~date.valid THEN Dash
  ELSE DateTemplate(padStart(toString(getDate(date, tz)), 2, "0"),
                    padStart(toString(getMonth(date, tz) + 1), 2, "0"),
                    toString(getFullYear(date, tz)))

\* the rendering without padStart on day and month
formatParsedDateNoPad(date, tz) ==
  IF ~date.valid THEN Dash
  ELSE DateTemplate(toString(getDate(date, tz)),
                    toString(getMonth(date, tz) + 1),
                    toString(getFullYear(date, tz)))

\* formatDate without padStart on day and month
formatDateNoPad(dateStr, tz) ==
  IF ~Truthy(dateStr) THEN Dash
  ELSE formatParsedDateNoPad(parseDate(dateStr, tz), tz)

formatDate(dateStr, tz) ==
  IF ~Truthy(dateStr) THEN Dash
  ELSE formatParsedDate(parseDate(dateStr, tz), tz)

\* the template `${hours}:${minutes}`
TimeTemplate(hours, minutes) == hours \o <<":">> \o minutes

\* the rendering of a parsed time, without seconds
formatParsedTime(time) ==
  IF ~time.ok THEN Dash
  ELSE TimeTemplate(padStart(toString(time.hours), 2, "0"),
                    padStart(toString(time.minutes), 2, "0"))

formatTime(timeStr, tz) ==
  IF ~Truthy(timeStr) THEN Dash
  ELSE formatParsedTime(parseTime(timeStr, tz))

\* the earlier revision's formatters return a JavaScript value: the
\* placeholder, the rendering, or the argument itself
formatParsedDate_000(dateStr, date, tz) ==
  IF ~date.valid THEN dateStr ELSE Str(formatParsedDate(date, tz))

formatDate_000(dateStr, tz) ==
  IF ~Truthy(dateStr) THEN Str(Dash)
  ELSE formatParsedDate_000(dateStr, parseDate_000(dateStr, tz), tz)

\* the template `${hours}:${minutes}:${seconds}`
formatParsedTime_000(timeStr, time) ==
  IF ~time.ok THEN timeStr
  ELSE Str(padStart(toString(time.hours), 2, "0") \o <<":">>
           \o padStart(toString(time.minutes), 2, "0") \o <<":">>
           \o padStart(toString(time.seconds), 2, "0"))

formatTime_000(timeStr, tz) ==
  IF ~Truthy(timeStr) THEN Str(Dash)
  ELSE formatParsedTime_000(timeStr, extractTimeComponents(timeStr, tz))

(***************************************************************************)
(* Record Normalizer                                                       *)
(*                                                                         *)
(* A source record carries every field name the normalizer reads; a field  *)
(* the record omits is Undefined.                                          *)
(***************************************************************************)
\* String(v) of a string or a non-negative integer
String(v) == IF v.t = "number" THEN Str(toString(v.n)) ELSE Str(v.s)

\* the template `lead-${index}-${Date.now()}`
PlaceholderId(index, now) ==
  <<"l", "e", "a", "d", "-">> \o toString(index) \o <<"-">> \o toString(now)

\* the template `lead-${index}` of the earlier revision
PlaceholderId_000(index) == <<"l", "e", "a", "d", "-">> \o toString(index)

\* now is the reading of Date.now() taken for this lead
normalizeLead(lead, index, now) ==
  [id          |-> Or(lead.id, Str(PlaceholderId(index, now))),
   name        |-> Or(lead.name, Str(<<>>)),
   projectName |-> Or(Or(Or(lead.projectName, lead.project_name), lead.project),
                      Str(<<>>)),
   phoneNumber |-> String(Or(Or(Or(lead.phoneNumber, lead.phone_number), lead.phone),
                             Str(<<>>))),
   date        |-> Or(lead.date, Str(<<>>)),
   time        |-> Or(lead.time, Str(<<>>))]

normalizeLead_000(lead, index) ==
  [id          |-> Or(lead.id, Str(PlaceholderId_000(index))),
   name        |-> Or(lead.name, Str(<<>>)),
   projectName |-> Or(Or(Or(lead.projectName, lead.project_name), lead.project),
                      Str(<<>>)),
   phoneNumber |-> String(Or(Or(Or(lead.phoneNumber, lead.phone_number), lead.phone),
                             Str(<<>>))),
   date        |-> Or(lead.date, Str(<<>>)),
   time        |-> Or(lead.time, Str(<<>>))]

\* leads.map((lead, index) => normalizeLead(lead, index)); index is 0-based
normalizeAll(leads, nows) ==
  [i \in 1..Len(leads) |-> normalizeLead(leads[i], i - 1, nows[i])]

normalizeAll_000(leads) ==
  [i \in 1..Len(leads) |-> normalizeLead_000(leads[i], i - 1)]

(***************************************************************************)
(* Remote operations                                                       *)
(*                                                                         *)
(* A response is [settled, ok, json, body]: whether fetch() resolved or    *)
(* rejected, response.ok, whether JSON.parse(text) succeeds, and the value *)
(* it yields.  A JSON value is [kind, items, leads, data, error]: kind is  *)
(* array, object, null or scalar; items are the elements of an array;      *)
(* leads and data are the members of these names of an object, each        *)
(* [kind, items] with kind absent, array or other; error is the member     *)
(* error.                                                                  *)
(***************************************************************************)
Absent == [kind |-> "absent", items |-> <<>>]

ArrayOf(items) == [kind |-> "array", items |-> items]

NotAnArray == [kind |-> "other", items |-> <<>>]

JsonArray(items) ==
  [kind |-> "array", items |-> items, leads |-> Absent, data |-> Absent,
   error |-> Undefined]

JsonObject(leads, data, error) ==
  [kind |-> "object", items |-> <<>>, leads |-> leads, data |-> data,
   error |-> error]

JsonNull ==
  [kind |-> "null", items |-> <<>>, leads |-> Absent, data |-> Absent,
   error |-> Undefined]

JsonScalar ==
  [kind |-> "scalar", items |-> <<>>, leads |-> Absent, data |-> Absent,
   error |-> Undefined]

Rejected == [settled |-> "rejected", ok |-> FALSE, json |-> FALSE, body |-> JsonNull]

Resolved(ok, json, body) ==
  [settled |-> "resolved", ok |-> ok, json |-> json, body |-> body]

\* what a call ended with: a value returned, or an error thrown to the
\* caller; normalized is the local normalizedLeads of fetchLeads
Pending == [kind |-> "pending", leads |-> <<>>, why |-> "none", normalized |-> <<>>]

Thrown(why) == [kind |-> "thrown", leads |-> <<>>, why |-> why, normalized |-> <<>>]

Returned(leads, what) ==
  [kind |-> "returned", leads |-> leads, why |-> what, normalized |-> <<>>]

\* "Handle different response formats": the raw leads, or the error thrown
\* (reading a member of null throws a TypeError)
extractLeads(data) ==
  IF data.kind = "array" THEN Returned(data.items, "array")
  ELSE IF data.kind = "null" THEN Thrown("TypeError")
  ELSE IF data.leads.kind = "array" THEN Returned(data.leads.items, "leads")
  ELSE IF data.data.kind = "array" THEN Returned(data.data.items, "data")
  ELSE IF Truthy(data.error) THEN Thrown("data.error")
  ELSE Returned(<<>>, "empty")

\* the sequence of lead objects an array reference r.ret denotes in r.heap
ArrayValue(r) ==
  [i \in 1..Len(r.heap.arrays[r.ret]) |-> r.heap.objects[r.heap.arrays[r.ret][i]]]

\* fetchLeads that returns the normalized leads in the order of the sheet
sortNormalizedSkipped(normalizedLeads, zone) == normalizedLeads

\* sortLeadsByDateTime(normalizedLeads), the array of the normalized leads
\* being the only array of a fresh heap
sortNormalized(normalizedLeads, zone) ==
  ArrayValue(sortLeadsByDateTime(
    [objects |-> normalizedLeads,
     arrays  |-> << [i \in 1..Len(normalizedLeads) |-> i] >>], 1, zone))

\* return sortLeadsByDateTime(normalizedLeads)
fetchLeadsReturn(normalizedLeads, zone) ==
  [kind |-> "returned", leads |-> sortNormalized(normalizedLeads, zone),
   why |-> "leads", normalized |-> normalizedLeads]

\* normalization and sort of the extracted leads
fetchLeadsFinish(extracted, nows, zone) ==
  IF extracted.kind = "thrown" THEN extracted
  ELSE fetchLeadsReturn(normalizeAll(extracted.leads, nows), zone)

\* fetchLeads without the check of response.ok
fetchLeadsNoStatusCheck(resp, nows, zone) ==
  IF resp.settled = "rejected" THEN Thrown("network")
  ELSE IF ~resp.json THEN Thrown("Invalid JSON response")
  ELSE fetchLeadsFinish(extractLeads(resp.body), nows, zone)

\* fetchLeads from the response on; every error is logged and thrown again
fetchLeads(resp, nows, zone) ==
  IF resp.settled = "rejected" THEN Thrown("network")
  ELSE IF ~resp.ok THEN Thrown("HTTP error")
  ELSE IF ~resp.json THEN Thrown("Invalid JSON response")
  ELSE fetchLeadsFinish(extractLeads(resp.body), nows, zone)

\* the earlier revision: the same steps with its normalizer and its sorter
sortNormalized_000(normalizedLeads, zone) ==
  ArrayValue(sortLeadsByDateTime_000(
    [objects |-> normalizedLeads,
     arrays  |-> << [i \in 1..Len(normalizedLeads) |-> i] >>], 1, zone))

fetchLeadsReturn_000(normalizedLeads, zone) ==
  [kind |-> "returned", leads |-> sortNormalized_000(normalizedLeads, zone),
   why |-> "leads", normalized |-> normalizedLeads]

fetchLeadsFinish_000(extracted, zone) ==
  IF extracted.kind = "thrown" THEN extracted
  ELSE fetchLeadsReturn_000(normalizeAll_000(extracted.leads), zone)

fetchLeads_000(resp, zone) ==
  IF resp.settled = "rejected" THEN Thrown("network")
  ELSE IF ~resp.ok THEN Thrown("HTTP error")
  ELSE IF ~resp.json THEN Thrown("Invalid JSON response")
  ELSE fetchLeadsFinish_000(extractLeads(resp.body), zone)

\* the inner try block of addLead: JSON.parse, the check of data.error,
\* return data
addLeadTry(resp) ==
  IF ~resp.json THEN Thrown("SyntaxError")
  ELSE IF resp.body.kind = "null" THEN Thrown("TypeError")
  ELSE IF Truthy(resp.body.error) THEN Thrown("data.error")
  ELSE Returned(<<>>, "data")

\* its catch (parseError) block: whatever was thrown in the try block,
\* { success: true } is returned
addLeadCatch(tried) ==
  IF tried.kind = "thrown" THEN Returned(<<>>, "success: true") ELSE tried

\* addLead from the response on
addLead(resp) ==
  IF resp.settled = "rejected" THEN Thrown("network")
  ELSE IF ~resp.ok THEN Thrown("HTTP error")
  ELSE addLeadCatch(addLeadTry(resp))

(***************************************************************************)
(* Filter                                                                  *)
(*                                                                         *)
(* filters is [searchName, project, date]: two JavaScript values and the   *)
(* Date of the date criterion, [set, t] (set FALSE: null).                 *)
(***************************************************************************)
UpperChars ==
  <<"A", "B", "C", "D", "E", "F", "G", "H", "I", "J", "K", "L", "M",
    "N", "O", "P", "Q", "R", "S", "T", "U", "V", "W", "X", "Y", "Z">>

LowerChars ==
  <<"a", "b", "c", "d", "e", "f", "g", "h", "i", "j", "k", "l", "m",
    "n", "o", "p", "q", "r", "s", "t", "u", "v", "w", "x", "y", "z">>

toLowerCaseChar(c) ==
  IF \E i \in 1..Len(UpperChars) : UpperChars[i] = c
  THEN LowerChars[CHOOSE i \in 1..Len(UpperChars) : UpperChars[i] = c]
  ELSE c

\* String.prototype.toLowerCase
toLowerCase(s) == [i \in 1..Len(s) |-> toLowerCaseChar(s[i])]

\* String.prototype.includes(sub)
includesString(s, sub) ==
  \E k \in 0..(Len(s) - Len(sub)) : \A j \in 1..Len(sub) : s[k + j] = sub[j]

NoDate == [set |-> FALSE, t |-> NaN]

DateObject(t) == [set |-> TRUE, t |-> t]

Filters(searchName, project, date) ==
  [searchName |-> searchName, project |-> project, date |-> date]

\* the comparison of the date parts; a getter of an Invalid Date gives NaN,
\* which differs from every number
sameDateParts(leadDate, filterDate, zone) ==
  /\ filterDate.valid
  /\ getFullYear(leadDate, zone) = getFullYear(filterDate, zone)
  /\ getMonth(leadDate, zone) = getMonth(filterDate, zone)
  /\ getDate(leadDate, zone) = getDate(filterDate, zone)

\* the date criterion on leadDate = parseDate(lead.date)
passesDate(leadDate, filterDate, zone) ==
  IF leadDate.valid THEN sameDateParts(leadDate, filterDate, zone) ELSE FALSE

\* the earlier revision lets a lead without parseable date pass
passesDate_000(leadDate, filterDate, zone) ==
  IF leadDate.valid THEN sameDateParts(leadDate, filterDate, zone) ELSE TRUE

\* a callback without the project criterion
filterCallbackAnyProject(lead, filters, zone) ==
  IF Truthy(filters.searchName) /\ lead.name.t # "string" THEN "throw"
  ELSE IF /\ Truthy(filters.searchName)
          /\ ~includesString(toLowerCase(lead.name.s),
                             toLowerCase(filters.searchName.s))
  THEN "drop"
  ELSE IF /\ filters.date.set
          /\ ~passesDate(parseDate(lead.date, zone), filters.date.t, zone)
  THEN "drop"
  ELSE "keep"

\* the callback of leads.filter: keep, drop, or throw (toLowerCase of a
\* name that is no string is a TypeError)
filterCallback(lead, filters, zone) ==
  IF Truthy(filters.searchName) /\ lead.name.t # "string" THEN "throw"
  ELSE IF /\ Truthy(filters.searchName)
          /\ ~includesString(toLowerCase(lead.name.s),
                             toLowerCase(filters.searchName.s))
  THEN "drop"
  ELSE IF /\ Truthy(filters.project)
          /\ filters.project # Str(<<"a", "l", "l">>)
          /\ lead.projectName # filters.project
  THEN "drop"
  ELSE IF /\ filters.date.set
          /\ ~passesDate(parseDate(lead.date, zone), filters.date.t, zone)
  THEN "drop"
  ELSE "keep"

filterCallback_000(lead, filters, zone) ==
  IF Truthy(filters.searchName) /\ lead.name.t # "string" THEN "throw"
  ELSE IF /\ Truthy(filters.searchName)
          /\ ~includesString(toLowerCase(lead.name.s),
                             toLowerCase(filters.searchName.s))
  THEN "drop"
  ELSE IF /\ Truthy(filters.project)
          /\ filters.project # Str(<<"a", "l", "l">>)
          /\ lead.projectName # filters.project
  THEN "drop"
  ELSE IF /\ filters.date.set
          /\ ~passesDate_000(parseDate_000(lead.date, zone), filters.date.t, zone)
  THEN "drop"
  ELSE "keep"

\* what the callback says of each element of leads, in order
Verdicts(leads, filters, zone) ==
  [i \in 1..Len(leads) |-> filterCallback(leads[i], filters, zone)]

VerdictsAnyProject(leads, filters, zone) ==
  [i \in 1..Len(leads) |-> filterCallbackAnyProject(leads[i], filters, zone)]

Verdicts_000(leads, filters, zone) ==
  [i \in 1..Len(leads) |-> filterCallback_000(leads[i], filters, zone)]

\* Array.prototype.filter: the positions kept, in the order of the input
RECURSIVE KeptFrom(_, _)
KeptFrom(verdicts, i) ==
  IF i > Len(verdicts) THEN <<>>
  ELSE (IF verdicts[i] = "keep" THEN <<i>> ELSE <<>>) \o KeptFrom(verdicts, i + 1)

\* what filter ends with: the new array, as the positions of its elements
\* in leads and as their values, or the error of the callback
ArrayFilter(leads, verdicts, kept) ==
  IF \E i \in 1..Len(verdicts) : verdicts[i] = "throw"
  THEN [kind |-> "thrown", kept |-> <<>>, leads |-> <<>>]
  ELSE [kind |-> "returned", kept |-> kept,
        leads |-> [i \in 1..Len(kept) |-> leads[kept[i]]]]

ArrayFilterOf(leads, verdicts) == ArrayFilter(leads, verdicts, KeptFrom(verdicts, 1))

\* a filter that returns the leads kept in the reverse of their order
filterLeadsReversed(leads, filters, zone) ==
  ArrayFilter(leads, Verdicts(leads, filters, zone),
              [i \in 1..Len(KeptFrom(Verdicts(leads, filters, zone), 1)) |->
                 KeptFrom(Verdicts(leads, filters, zone), 1)[
                   Len(KeptFrom(Verdicts(leads, filters, zone), 1)) + 1 - i]])

filterLeadsAnyProject(leads, filters, zone) ==
  ArrayFilterOf(leads, VerdictsAnyProject(leads, filters, zone))

filterLeads(leads, filters, zone) ==
  ArrayFilterOf(leads, Verdicts(leads, filters, zone))

filterLeads_000(leads, filters, zone) ==
  ArrayFilterOf(leads, Verdicts_000(leads, filters, zone))

(***************************************************************************)
(* The pages AdminDashboard and PublicLeadsPage                            *)
(*                                                                         *)
(* st is the record of the state cells of the component; a handler is the  *)
(* record after its state updates.  An async handler is cut at its await:  *)
(* the part before it, and the part that runs when the promise settles.    *)
(***************************************************************************)
AdminDashboard == "AdminDashboard"

PublicLeadsPage == "PublicLeadsPage"

\* formData as useState initializes it and as handleSubmit resets it
EmptyForm ==
  [name |-> Str(<<>>), projectName |-> Str(<<>>), phoneNumber |-> Str(<<>>),
   date |-> NoDate, time |-> Str(<<>>)]

\* the state cells after the first render
InitialCells ==
  [leads |-> <<>>, isLoading |-> TRUE, isSubmitting |-> FALSE, error |-> "null",
   formData |-> EmptyForm,
   searchName |-> Str(<<>>), selectedProject |-> Str(<<"a", "l", "l">>),
   filterDate |-> NoDate]

\* the message of setError in the catch block of loadLeads
LoadError(p) ==
  IF p = AdminDashboard THEN "Unable to load leads. Please try again."
  ELSE "Unable to load leads. Please try again later."

\* loadLeads up to await fetchLeads()
loadLeadsBegin(st) == [st EXCEPT !.isLoading = TRUE, !.error = "null"]

\* loadLeads that empties the collection when the fetch fails
loadLeadsResumeClearing(p, st, result) ==
  IF result.kind = "returned"
  THEN [st EXCEPT !.leads = result.leads, !.isLoading = FALSE]
  ELSE [st EXCEPT !.leads = <<>>, !.error = LoadError(p), !.isLoading = FALSE]

\* loadLeads that keeps the collection it has once it holds leads
loadLeadsResumeKeepFirst(p, st, result) ==
  IF result.kind = "returned" /\ st.leads = <<>>
  THEN [st EXCEPT !.leads = result.leads, !.isLoading = FALSE]
  ELSE IF result.kind = "returned" THEN [st EXCEPT !.isLoading = FALSE]
  ELSE [st EXCEPT !.error = LoadError(p), !.isLoading = FALSE]

\* loadLeads from the settling of fetchLeads() on: setLeads(data), or the
\* catch block, then the finally block
loadLeadsResume(p, st, result) ==
  IF result.kind = "returned"
  THEN [st EXCEPT !.leads = result.leads, !.isLoading = FALSE]
  ELSE [st EXCEPT !.error = LoadError(p), !.isLoading = FALSE]

\* the useMemo filteredLeads
filteredLeads(st, zone) ==
  filterLeads(st.leads, Filters(st.searchName, st.selectedProject, st.filterDate), zone)

\* getUniqueProjects(leads), as a set: the options of the project filter
\* besides 'all'
getUniqueProjects(list) ==
  {list[i].projectName : i \in {j \in 1..Len(list) : Truthy(list[j].projectName)}}

clearFilters(st) ==
  [st EXCEPT !.searchName = Str(<<>>), !.selectedProject = Str(<<"a", "l", "l">>),
             !.filterDate = NoDate]

\* the table area renders the error message with its Try Again button:
\* isLoading ? skeleton : error ? message : table
ErrorShown(st) == ~st.isLoading /\ st.error # "null"

\* the check at the head of handleSubmit passes
AllFieldsFilled(formData) ==
  /\ Truthy(formData.name) /\ Truthy(formData.projectName)
  /\ Truthy(formData.phoneNumber) /\ formData.date.set /\ Truthy(formData.time)

\* handleSubmit up to await addLead(leadData), the check passed
handleSubmitBegin(st) == [st EXCEPT !.isSubmitting = TRUE]

\* handleSubmit from the settling of addLead on: the reset of the form, or
\* the catch block, then the finally block
handleSubmitResume(st, result) ==
  IF result.kind = "returned"
  THEN [st EXCEPT !.formData = EmptyForm, !.isSubmitting = FALSE]
  ELSE [st EXCEPT !.isSubmitting = FALSE]

(***************************************************************************)
(* The specification of the sorter: a list of leads is drawn, then sorted. *)
(***************************************************************************)
VARIABLES
  tz,          \* the runtime's local offset from UTC, minutes
  objects,     \* heap: the lead objects
  arrays,      \* heap: the arrays of lead references
  leadsRef,    \* the array passed to sortLeadsByDateTime
  sortedRef,   \* the array it returned, 0 before the call
  sortedRef_000, \* the array the earlier revision's sorter returned, 0 before
  resortedRef  \* the array returned for the argument sortedRef, 0 before

sortVars == <<objects, arrays, leadsRef, sortedRef, sortedRef_000, resortedRef>>

\* the formatter's argument and what it returned
VARIABLES
  dateIn,         \* the value passed to parseDate and to formatDate
  dateOut,        \* [called, s]: whether formatDate has returned, and the string
  dateOut_000,    \* [called, v]: the same of the earlier revision, v a value
  dateParsed,     \* [called, date]: whether parseDate has returned, and the Date
  dateParsed_000  \* the same of the earlier revision

formatVars == <<dateIn, dateOut, dateOut_000, dateParsed, dateParsed_000>>

NotFormatted == [called |-> FALSE, v |-> Undefined]

NoDateParsed == [called |-> FALSE, date |-> null]

\* the two remote operations, each called once
VARIABLES
  fetchPc,     \* idle, pending (awaiting the response) or done
  fetchResp,   \* the response fetchLeads got
  fetchNows,   \* the readings of Date.now(), one per lead of the batch
  fetchResult, \* what fetchLeads ended with
  fetchResult_000, \* what the earlier revision's fetchLeads ended with, given the same response
  addPc,       \* idle, pending or done
  addResp,     \* the response addLead got
  addResult    \* what addLead ended with

apiVars == <<fetchPc, fetchResp, fetchNows, fetchResult, fetchResult_000, addPc, addResp, addResult>>

\* the filter's arguments and what it returned
VARIABLES
  filterIn,      \* the list of leads passed to filterLeads
  filterArgs,    \* the filters passed to it
  filterOut,     \* what it ended with
  filterOut_000  \* what the earlier revision's filterLeads ended with

filterVars == <<filterIn, filterArgs, filterOut, filterOut_000>>

\* the time parsers' and time formatters' argument and what they returned
VARIABLES
  timeIn,         \* the value passed to them
  timeParsed,     \* [called, time]: what parseTime returned
  timeParsed_000, \* what extractTimeComponents returned
  timeShown,      \* [called, s]: the string formatTime returned
  timeShown_000   \* [called, v]: the value the earlier formatTime returned

timeVars == <<timeIn, timeParsed, timeParsed_000, timeShown, timeShown_000>>

\* the combiner's arguments and what it returned
VARIABLES
  combIn,      \* [date, time]: the values passed to the combiner
  combOut,     \* [called, ts, midnight]: createSortableTimestamp of them,
               \* and of the same date with the time '00:00:00'
  combOut_000  \* the same of parseDateTime

combVars == <<combIn, combOut, combOut_000>>

\* the two leads the combiner is applied to, and their timestamps
VARIABLES
  pairIn,      \* <<a, b>>: two leads [date, time]
  pairOut,     \* [called, a, b]: createSortableTimestamp of a and of b
  pairOut_000  \* the same of parseDateTime

orderVars == <<pairIn, pairOut, pairOut_000>>

NotCompared == [called |-> FALSE, a |-> Zero, b |-> Zero]

\* a page (AdminDashboard or PublicLeadsPage), its state cells and what is
\* outstanding around it
VARIABLES
  page,        \* which of the two components is mounted
  ui,          \* the useState cells: leads, isLoading, isSubmitting, error,
               \* formData, searchName, selectedProject, filterDate
  mounted,     \* whether the effect of the first render has run
  issued,      \* the number of fetchLeads calls loadLeads has started
  inflight,    \* the calls of them that have not settled, by their number
  completed,   \* [id, kind]: the call that settled last and the outcome
               \* of fetchLeads, id 0 when none has settled
  newest,      \* the largest number of a call that returned leads
  fetched,     \* what the last fetchLeads that returned has returned
  adding,      \* whether handleSubmit is waiting for addLead
  added,       \* the number of addLead calls handleSubmit has started
  addAnswer,   \* the response the last addLead call got
  timers       \* the number of pending setTimeout(loadLeads, 1500)

pageVars == <<page, ui, mounted, issued, inflight, completed, newest, fetched, adding, added, addAnswer, timers>>

vars == <<tz, sortVars, formatVars, apiVars, filterVars, timeVars, combVars, orderVars, pageVars>>

\* the sorter before any list is drawn
SortIdle ==
  /\ objects = <<>>
  /\ arrays = << <<>> >>
  /\ leadsRef = 1
  /\ sortedRef = 0
  /\ sortedRef_000 = 0
  /\ resortedRef = 0

\* the formatter before any call
FormatIdle ==
  /\ dateIn = Undefined
  /\ dateOut = [called |-> FALSE, s |-> <<>>]
  /\ dateOut_000 = NotFormatted
  /\ dateParsed = NoDateParsed
  /\ dateParsed_000 = NoDateParsed

\* the remote operations before any call
ApiIdle ==
  /\ fetchPc = "idle"
  /\ fetchResp = Rejected
  /\ fetchNows = <<>>
  /\ fetchResult = Pending
  /\ fetchResult_000 = Pending
  /\ addPc = "idle"
  /\ addResp = Rejected
  /\ addResult = Pending

NotCalled == [kind |-> "pending", kept |-> <<>>, leads |-> <<>>]

\* the filter before any call
FilterIdle ==
  /\ filterIn = <<>>
  /\ filterArgs = Filters(Undefined, Undefined, NoDate)
  /\ filterOut = NotCalled
  /\ filterOut_000 = NotCalled

NotParsed == [called |-> FALSE, time |-> noTime]

\* the time parsers and formatters before any call
TimeIdle ==
  /\ timeIn = Undefined
  /\ timeParsed = NotParsed
  /\ timeParsed_000 = NotParsed
  /\ timeShown = [called |-> FALSE, s |-> <<>>]
  /\ timeShown_000 = [called |-> FALSE, v |-> Undefined]

NotCombined == [called |-> FALSE, ts |-> Zero, midnight |-> Zero]

\* the combiner before any call
CombIdle ==
  /\ combIn = [date |-> Undefined, time |-> Undefined]
  /\ combOut = NotCombined
  /\ combOut_000 = NotCombined

\* the combiner before any pair of leads is drawn
OrderIdle ==
  /\ pairIn = <<>>
  /\ pairOut = NotCompared
  /\ pairOut_000 = NotCompared

NoneCompleted == [id |-> 0, kind |-> "none"]

\* no page mounted
PageIdle ==
  /\ page = "none"
  /\ ui = InitialCells
  /\ mounted = FALSE
  /\ issued = 0
  /\ inflight = {}
  /\ completed = NoneCompleted
  /\ newest = 0
  /\ fetched = <<>>
  /\ adding = FALSE
  /\ added = 0
  /\ addAnswer = Rejected
  /\ timers = 0

\* longest list of leads drawn
MaxLeads == 3

\* UTC-5, UTC and UTC+5:30
TimeZones == {-300, 0, 330}

SortLead(date, time) ==
  [id |-> Undefined, name |-> Str(<<>>), projectName |-> Str(<<>>),
   phoneNumber |-> Str(<<>>), date |-> Str(date), time |-> Str(time)]

\* the (date, time) pairs the leads of a list are drawn from
SortLeadPool ==
  {
    \* date '', time ''
    SortLead(<<>>, <<>>),
    \* date '', time '10:00'
    SortLead(<<>>, <<"1", "0", ":", "0", "0">>),
    \* date '25/02/2026', time '06:49:39'
    SortLead(<<"2", "5", "/", "0", "2", "/", "2", "0", "2", "6">>, <<"0", "6", ":", "4", "9", ":", "3", "9">>),
    \* date '25/02/2026', time '1899-12-30T06:49:39.000Z'
    SortLead(<<"2", "5", "/", "0", "2", "/", "2", "0", "2", "6">>, <<"1", "8", "9", "9", "-", "1", "2", "-", "3", "0", "T", "0", "6", ":", "4", "9", ":", "3", "9", ".", "0", "0", "0", "Z">>),
    \* date '01/01/2020', time ''
    SortLead(<<"0", "1", "/", "0", "1", "/", "2", "0", "2", "0">>, <<>>),
    \* date '2020-01-01', time '00:00'
    SortLead(<<"2", "0", "2", "0", "-", "0", "1", "-", "0", "1">>, <<"0", "0", ":", "0", "0">>),
    \* date '31/12/1969', time '23:59'
    SortLead(<<"3", "1", "/", "1", "2", "/", "1", "9", "6", "9">>, <<"2", "3", ":", "5", "9">>),
    \* date '01/01/1970', time ''
    SortLead(<<"0", "1", "/", "0", "1", "/", "1", "9", "7", "0">>, <<>>),
    \* date 'n/a', time '06:49:39'
    SortLead(<<"n", "/", "a">>, <<"0", "6", ":", "4", "9", ":", "3", "9">>),
    \* date '2026-02-25T18:40:00.000Z', time 'soon'
    SortLead(<<"2", "0", "2", "6", "-", "0", "2", "-", "2", "5", "T", "1", "8", ":", "4", "0", ":", "0", "0", ".", "0", "0", "0", "Z">>, <<"s", "o", "o", "n">>)
  }

SeqsUpTo(S, n) == UNION {[1..k -> S] : k \in 0..n}

SortInit ==
  /\ tz \in TimeZones
  /\ objects \in SeqsUpTo(SortLeadPool, MaxLeads)
  /\ arrays = << [i \in 1..Len(objects) |-> i] >>
  /\ leadsRef = 1
  /\ sortedRef = 0
  /\ sortedRef_000 = 0
  /\ resortedRef = 0
  /\ FormatIdle
  /\ ApiIdle
  /\ FilterIdle
  /\ TimeIdle
  /\ CombIdle
  /\ OrderIdle
  /\ PageIdle

\* the caller's view after the call returned r
SortReturned(r) ==
  /\ objects' = r.heap.objects
  /\ arrays' = r.heap.arrays
  /\ sortedRef' = r.ret

SortLeads ==
  /\ sortedRef = 0
  /\ SortReturned(sortLeadsByDateTime([objects |-> objects, arrays |-> arrays],
                                      leadsRef, tz))
  /\ UNCHANGED <<tz, leadsRef, sortedRef_000, resortedRef, formatVars, apiVars, filterVars, timeVars, combVars, orderVars, pageVars>>

SortReturned_000(r) ==
  /\ objects' = r.heap.objects
  /\ arrays' = r.heap.arrays
  /\ sortedRef_000' = r.ret

SortLeads_000 ==
  /\ sortedRef_000 = 0
  /\ SortReturned_000(sortLeadsByDateTime_000([objects |-> objects, arrays |-> arrays],
                                              leadsRef, tz))
  /\ UNCHANGED <<tz, leadsRef, sortedRef, resortedRef, formatVars, apiVars, filterVars, timeVars, combVars, orderVars, pageVars>>

ResortReturned(r) ==
  /\ objects' = r.heap.objects
  /\ arrays' = r.heap.arrays
  /\ resortedRef' = r.ret

\* sortLeadsByDateTime called with the array an earlier call returned
SortLeadsAgain ==
  /\ sortedRef # 0
  /\ resortedRef = 0
  /\ ResortReturned(sortLeadsByDateTime([objects |-> objects, arrays |-> arrays],
                                        sortedRef, tz))
  /\ UNCHANGED <<tz, leadsRef, sortedRef, sortedRef_000, formatVars, apiVars, filterVars, timeVars, combVars, orderVars, pageVars>>

SortNext == SortLeads \/ SortLeads_000 \/ SortLeadsAgain

SortSpec == SortInit /\ [][SortNext]_vars

(***************************************************************************)
(* The specification of the formatter: a date value is drawn, then         *)
(* formatDate is applied to it.                                            *)
(***************************************************************************)
\* days and months are written from 0 up to these numbers
MaxDay == 32

MaxMonth == 13

\* the years written (4 digits)
YearStrings ==
  { <<"0", "0", "0", "0">>,
    <<"0", "0", "9", "9">>,
    <<"0", "1", "0", "0">>,
    <<"0", "9", "9", "9">>,
    <<"1", "0", "0", "0">>,
    <<"1", "9", "0", "0">>,
    <<"1", "9", "6", "9">>,
    <<"1", "9", "7", "0">>,
    <<"2", "0", "0", "0">>,
    <<"2", "0", "2", "4">>,
    <<"2", "0", "2", "6">>,
    <<"9", "9", "9", "9">> }

\* a number as written with one or two digits: unpadded, and padded to 2
Written(n) == {toString(n), padStart(toString(n), 2, "0")}

\* the strings D/M/YYYY, DD/MM/YYYY and their mixtures
DMYStrings ==
  {DateTemplate(d, m, y) :
     d \in UNION {Written(n) : n \in 0..MaxDay},
     m \in UNION {Written(n) : n \in 0..MaxMonth},
     y \in YearStrings}

\* values of the other encodings, and values that are no date
OtherDateValues ==
  { Undefined, Str(<<>>), Num(0), Num(86400001),
    Str(<<"2", "0", "2", "6", "-", "0", "2", "-", "2", "5">>),
    Str(<<"1", "9", "6", "9", "-", "1", "2", "-", "3", "1">>),
    Str(<<"2", "0", "2", "4", "-", "0", "2", "-", "2", "9">>),
    Str(<<"2", "0", "0", "0", "-", "0", "1", "-", "0", "1">>),
    Str(<<"0", "0", "9", "9", "-", "1", "2", "-", "3", "1">>),
    Str(<<"2", "0", "2", "6", "-", "0", "2", "-", "2", "5", "T", "1", "8", ":", "4", "0", ":", "0", "0", ".", "0", "0", "0", "Z">>),
    Str(<<"n", "/", "a">>) }

DateValues == {Str(x) : x \in DMYStrings} \cup OtherDateValues

FormatInit ==
  /\ tz \in TimeZones
  /\ dateIn \in DateValues
  /\ dateOut = [called |-> FALSE, s |-> <<>>]
  /\ dateOut_000 = NotFormatted
  /\ dateParsed = NoDateParsed
  /\ dateParsed_000 = NoDateParsed
  /\ SortIdle
  /\ ApiIdle
  /\ FilterIdle
  /\ TimeIdle
  /\ CombIdle
  /\ OrderIdle
  /\ PageIdle

\* a behaviour applies one of the four functions to dateIn
FormatFresh ==
  /\ ~dateOut.called /\ ~dateOut_000.called
  /\ ~dateParsed.called /\ ~dateParsed_000.called

FormatDate ==
  /\ FormatFresh
  /\ dateOut' = [called |-> TRUE, s |-> formatDate(dateIn, tz)]
  /\ UNCHANGED <<tz, dateIn, dateOut_000, dateParsed, dateParsed_000>>
  /\ UNCHANGED <<sortVars, apiVars, filterVars, timeVars, combVars, orderVars, pageVars>>

FormatDate_000 ==
  /\ FormatFresh
  /\ dateOut_000' = [called |-> TRUE, v |-> formatDate_000(dateIn, tz)]
  /\ UNCHANGED <<tz, dateIn, dateOut, dateParsed, dateParsed_000>>
  /\ UNCHANGED <<sortVars, apiVars, filterVars, timeVars, combVars, orderVars, pageVars>>

ParseDate ==
  /\ FormatFresh
  /\ dateParsed' = [called |-> TRUE, date |-> parseDate(dateIn, tz)]
  /\ UNCHANGED <<tz, dateIn, dateOut, dateOut_000, dateParsed_000>>
  /\ UNCHANGED <<sortVars, apiVars, filterVars, timeVars, combVars, orderVars, pageVars>>

ParseDate_000 ==
  /\ FormatFresh
  /\ dateParsed_000' = [called |-> TRUE, date |-> parseDate_000(dateIn, tz)]
  /\ UNCHANGED <<tz, dateIn, dateOut, dateOut_000, dateParsed>>
  /\ UNCHANGED <<sortVars, apiVars, filterVars, timeVars, combVars, orderVars, pageVars>>

FormatNext ==
  \/ FormatDate
  \/ FormatDate_000
  \/ ParseDate
  \/ ParseDate_000

FormatSpec == FormatInit /\ [][FormatNext]_vars

(***************************************************************************)
(* The specification of the remote operations: one call of fetchLeads or   *)
(* of addLead; the endpoint answers with any of the responses below.       *)
(***************************************************************************)
RawLead(id, name, projectName, project_name, project, phoneNumber, phone_number, phone, date, time) ==
  [id |-> id, name |-> name,
   projectName |-> projectName, project_name |-> project_name, project |-> project,
   phoneNumber |-> phoneNumber, phone_number |-> phone_number, phone |-> phone,
   date |-> date, time |-> time]

\* the source records of a batch
RawLeadPool ==
  {
    \* id 'A', projectName, a numeric phoneNumber
    RawLead(Str(<<"A">>), Str(<<"A", "n", "n">>),
            Str(<<"P">>), Undefined, Undefined,
            Num(98), Undefined, Undefined,
            Str(<<"2", "5", "/", "0", "2", "/", "2", "0", "2", "6">>), Str(<<"0", "6", ":", "4", "9", ":", "3", "9">>)),
    \* no id, project_name, phone_number, no time
    RawLead(Undefined, Str(<<"B", "o", "b">>),
            Undefined, Str(<<"Q">>), Undefined,
            Undefined, Str(<<"7", "7">>), Undefined,
            Str(<<"0", "1", "/", "0", "1", "/", "2", "0", "2", "0">>), Undefined),
    \* an id of the form of a placeholder, project, phone
    RawLead(Str(<<"l", "e", "a", "d", "-", "1", "-", "7">>), Undefined,
            Undefined, Undefined, Str(<<"R">>),
            Undefined, Undefined, Num(5),
            Str(<<"3", "1", "/", "1", "2", "/", "1", "9", "6", "9">>), Str(<<"2", "3", ":", "5", "9">>)),
    \* an id of the form of the earlier placeholder, nothing else
    RawLead(Str(<<"l", "e", "a", "d", "-", "1">>), Undefined,
            Undefined, Undefined, Undefined,
            Undefined, Undefined, Undefined,
            Undefined, Undefined),
    \* id 0, every project alias, phoneNumber 0, empty date
    RawLead(Num(0), Str(<<"C">>),
            Str(<<"P">>), Str(<<"Q">>), Str(<<"R">>),
            Num(0), Undefined, Str(<<"8">>),
            Str(<<>>), Str(<<"1", "0", ":", "0", "0">>)),
    \* a numeric id and name, ISO date and time
    RawLead(Num(5), Num(42),
            Str(<<>>), Undefined, Undefined,
            Undefined, Undefined, Undefined,
            Str(<<"2", "0", "2", "6", "-", "0", "2", "-", "2", "5", "T", "1", "8", ":", "4", "0", ":", "0", "0", ".", "0", "0", "0", "Z">>), Str(<<"1", "8", "9", "9", "-", "1", "2", "-", "3", "0", "T", "0", "6", ":", "4", "9", ":", "3", "9", ".", "0", "0", "0", "Z">>))
  }

\* longest batch of source records
MaxBatch == 2

Batches == SeqsUpTo(RawLeadPool, MaxBatch)

\* the values of the member error
ErrorValues == {Undefined, Str(<<>>), Str(<<"b", "o", "o", "m">>)}

\* the JSON values a body can parse to
JsonBodies ==
  {JsonArray(b) : b \in Batches}
    \cup {JsonObject(ArrayOf(b), Absent, e) : b \in Batches, e \in ErrorValues}
    \cup {JsonObject(Absent, ArrayOf(b), Undefined) : b \in Batches}
    \cup {JsonObject(l, Absent, e) : l \in {Absent, NotAnArray}, e \in ErrorValues}
    \cup {JsonNull, JsonScalar}

\* the bodies that carry no lead
BodiesWithoutLeads ==
  {b \in JsonBodies : b.items = <<>> /\ b.leads.items = <<>> /\ b.data.items = <<>>}

\* the responses: fetch() rejects, or resolves with a status that is or is
\* not 2xx and a body that is or is not JSON
Responses ==
  {Rejected, Resolved(FALSE, FALSE, JsonNull), Resolved(TRUE, FALSE, JsonNull)}
    \cup {Resolved(TRUE, TRUE, b) : b \in JsonBodies}
    \cup {Resolved(FALSE, TRUE, b) :
            b \in BodiesWithoutLeads \cup {JsonArray(<<r>>) : r \in RawLeadPool}}

\* the answers to an add carry no lead
AddResponses ==
  {Rejected, Resolved(FALSE, FALSE, JsonNull), Resolved(TRUE, FALSE, JsonNull)}
    \cup {Resolved(ok, TRUE, b) : ok \in BOOLEAN, b \in BodiesWithoutLeads}

\* the readings of the clock
Clock == {7, 8}

\* Date.now() read once per lead, never decreasing
NowSeqs(n) ==
  {c \in [1..n -> Clock] : \A i \in 1..(n - 1) : c[i] <= c[i + 1]}

\* the raw leads of what extractLeads gave (none when it threw)
LeadsOf(extracted) == IF extracted.kind = "returned" THEN extracted.leads ELSE <<>>

\* the raw leads of a response (none when there is no batch in it)
BatchOf(resp) ==
  IF resp.settled = "resolved" /\ resp.ok /\ resp.json
  THEN LeadsOf(extractLeads(resp.body)) ELSE <<>>

ApiInit ==
  /\ tz \in TimeZones
  /\ ApiIdle
  /\ SortIdle
  /\ FormatIdle
  /\ FilterIdle
  /\ TimeIdle
  /\ CombIdle
  /\ OrderIdle
  /\ PageIdle

FetchLeadsCall ==
  /\ fetchPc = "idle"
  /\ addPc = "idle"
  /\ fetchPc' = "pending"
  /\ UNCHANGED <<tz, fetchResp, fetchNows, fetchResult, fetchResult_000,
                 addPc, addResp, addResult, sortVars, formatVars, filterVars, timeVars, combVars, orderVars, pageVars>>

FetchLeadsSettle ==
  /\ fetchPc = "pending"
  /\ \E resp \in Responses :
       \E nows \in NowSeqs(Len(BatchOf(resp))) :
         /\ fetchResp' = resp
         /\ fetchNows' = nows
         /\ fetchResult' = fetchLeads(resp, nows, tz)
  /\ fetchPc' = "done"
  /\ UNCHANGED <<tz, fetchResult_000, addPc, addResp, addResult,
                 sortVars, formatVars, filterVars, timeVars, combVars, orderVars, pageVars>>

\* the earlier revision's fetchLeads given the same response
FetchLeadsSettle_000 ==
  /\ fetchPc = "done"
  /\ fetchResult_000 = Pending
  /\ fetchResult_000' = fetchLeads_000(fetchResp, tz)
  /\ UNCHANGED <<tz, fetchPc, fetchResp, fetchNows, fetchResult,
                 addPc, addResp, addResult, sortVars, formatVars, filterVars, timeVars, combVars, orderVars, pageVars>>

AddLeadCall ==
  /\ addPc = "idle"
  /\ fetchPc = "idle"
  /\ addPc' = "pending"
  /\ UNCHANGED <<tz, fetchPc, fetchResp, fetchNows, fetchResult, fetchResult_000,
                 addResp, addResult, sortVars, formatVars, filterVars, timeVars, combVars, orderVars, pageVars>>

AddLeadSettle ==
  /\ addPc = "pending"
  /\ \E resp \in AddResponses :
       /\ addResp' = resp
       /\ addResult' = addLead(resp)
  /\ addPc' = "done"
  /\ UNCHANGED <<tz, fetchPc, fetchResp, fetchNows, fetchResult, fetchResult_000,
                 sortVars, formatVars, filterVars, timeVars, combVars, orderVars, pageVars>>

ApiNext ==
  \/ FetchLeadsCall
  \/ FetchLeadsSettle
  \/ FetchLeadsSettle_000
  \/ AddLeadCall
  \/ AddLeadSettle

ApiSpec == ApiInit /\ [][ApiNext]_vars

(***************************************************************************)
(* The specification of the filter: a list of leads and the filters are    *)
(* drawn, then filterLeads is applied.                                     *)
(***************************************************************************)
Lead(id, name, projectName, phoneNumber, date, time) ==
  [id |-> id, name |-> name, projectName |-> projectName,
   phoneNumber |-> phoneNumber, date |-> date, time |-> time]

FilterLeadPool ==
  {
    Lead(Str(<<"1">>), Str(<<"A", "n", "n">>), Str(<<"P">>),
         Str(<<"9", "8">>),
         Str(<<"2", "5", "/", "0", "2", "/", "2", "0", "2", "6">>),
         Str(<<"0", "6", ":", "4", "9", ":", "3", "9">>)),
    Lead(Str(<<"2">>), Str(<<"b", "o", "b">>), Str(<<"Q">>),
         Str(<<"7", "7">>),
         Str(<<"2", "0", "2", "6", "-", "0", "2", "-", "2", "5">>),
         Str(<<>>)),
    Lead(Str(<<"3">>), Str(<<"A", "N", "N", "A">>), Str(<<"a", "l", "l">>),
         Str(<<>>),
         Str(<<>>),
         Str(<<"1", "0", ":", "0", "0">>)),
    Lead(Str(<<"4">>), Num(42), Str(<<>>),
         Str(<<"5">>),
         Str(<<"n", "/", "a">>),
         Str(<<>>)),
    Lead(Str(<<"5">>), Str(<<>>), Num(5),
         Str(<<"8">>),
         Str(<<"2", "0", "2", "6", "-", "0", "2", "-", "2", "5", "T", "2", "0", ":", "0", "0", ":", "0", "0", ".", "0", "0", "0", "Z">>),
         Str(<<"1", "8", "9", "9", "-", "1", "2", "-", "3", "0", "T", "0", "6", ":", "4", "9", ":", "3", "9", ".", "0", "0", "0", "Z">>)),
    Lead(Str(<<"6">>), Str(<<"A", "n", "n">>), Str(<<"p">>),
         Str(<<"9", "8">>),
         Str(<<"0", "1", "/", "0", "1", "/", "2", "0", "2", "0">>),
         Str(<<"2", "3", ":", "5", "9">>))
  }

\* longest list of leads filtered
MaxFiltered == 2

SearchNames == {Undefined, Str(<<>>), Str(<<"a", "N">>), Str(<<"x">>)}

ProjectQueries ==
  {Undefined, Str(<<>>), Str(<<"a", "l", "l">>), Str(<<"P">>), Str(<<"Q">>),
   Str(<<"Z">>)}

\* the dates of the date criterion: none, two local days at some time of
\* day, an Invalid Date
FilterDates(zone) ==
  {NoDate,
   DateObject(NewDateLocal(2026, 1, 25, 0, 0, 0, 0, zone)),
   DateObject(NewDateLocal(2026, 1, 26, 15, 30, 0, 0, zone)),
   DateObject(NewDateLocal(2020, 0, 1, 23, 59, 59, 999, zone)),
   DateObject(NaN)}

FilterInit ==
  /\ tz \in TimeZones
  /\ filterIn \in SeqsUpTo(FilterLeadPool, MaxFiltered)
  /\ \E n \in SearchNames, p \in ProjectQueries, d \in FilterDates(tz) :
       filterArgs = Filters(n, p, d)
  /\ filterOut = NotCalled
  /\ filterOut_000 = NotCalled
  /\ SortIdle
  /\ FormatIdle
  /\ ApiIdle
  /\ TimeIdle
  /\ CombIdle
  /\ OrderIdle
  /\ PageIdle

FilterLeads ==
  /\ filterOut = NotCalled
  /\ filterOut' = filterLeads(filterIn, filterArgs, tz)
  /\ UNCHANGED <<tz, filterIn, filterArgs, filterOut_000, sortVars, formatVars, apiVars, timeVars, combVars, orderVars, pageVars>>

FilterLeads_000 ==
  /\ filterOut_000 = NotCalled
  /\ filterOut_000' = filterLeads_000(filterIn, filterArgs, tz)
  /\ UNCHANGED <<tz, filterIn, filterArgs, filterOut, sortVars, formatVars, apiVars, timeVars, combVars, orderVars, pageVars>>

FilterNext == FilterLeads \/ FilterLeads_000

FilterSpec == FilterInit /\ [][FilterNext]_vars

(***************************************************************************)
(* The specification of the time parser and the time formatter: a time     *)
(* value is drawn, then each of the four functions is applied to it.       *)
(***************************************************************************)
TwoDigits(n) == padStart(toString(n), 2, "0")

IsoDays ==
  {<<"1", "8", "9", "9", "-", "1", "2", "-", "3", "0">>,
   <<"2", "0", "2", "6", "-", "0", "2", "-", "2", "5">>}

IsoFractions == {<<>>, <<".", "0", "0", "0">>, <<".", "9", "9", "9">>}

\* date, T, HH:MM:SS, an optional fraction and an optional Z; the fields of
\* some name no time of day
IsoTimeStrings ==
  {d \o <<"T">> \o TwoDigits(h) \o <<":">> \o TwoDigits(m) \o <<":">>
     \o TwoDigits(sec) \o f \o z :
     d \in IsoDays, h \in {0, 6, 23, 24, 25}, m \in {0, 49, 60},
     sec \in {0, 39, 60}, f \in IsoFractions, z \in {<<>>, <<"Z">>}}
    \cup {d \o <<"T">> \o TwoDigits(h) \o <<":">> \o TwoDigits(m) \o <<"Z">> :
            d \in IsoDays, h \in {6, 24}, m \in {0, 49}}

HourStrings ==
  {<<"0">>, <<"6">>, <<"0", "6">>, <<"2", "3">>, <<"2", "4">>, <<"9", "9">>,
   <<"0", "0", "6">>}

MinuteStrings == {<<"0", "0">>, <<"4", "9">>, <<"5", "9">>, <<"6", "0">>, <<"5">>}

SecondStrings ==
  {<<>>, <<":", "0", "0">>, <<":", "3", "9">>, <<":", "6", "0">>, <<":", "9", "9">>,
   <<":", "7">>}

\* hours, a colon, minutes and optional seconds, of one to three digits
HMSStrings ==
  {h \o <<":">> \o m \o sec :
     h \in HourStrings, m \in MinuteStrings, sec \in SecondStrings}

OtherTimeValues ==
  { Undefined, Str(<<>>), Num(0), Num(5),
    Str(<<"s", "o", "o", "n">>), Str(<<"T">>), Str(<<"n", "/", "a">>) }

TimeValues ==
  {Str(x) : x \in IsoTimeStrings \cup HMSStrings} \cup OtherTimeValues

TimeInit ==
  /\ tz \in TimeZones
  /\ timeIn \in TimeValues
  /\ timeParsed = NotParsed
  /\ timeParsed_000 = NotParsed
  /\ timeShown = [called |-> FALSE, s |-> <<>>]
  /\ timeShown_000 = [called |-> FALSE, v |-> Undefined]
  /\ SortIdle
  /\ FormatIdle
  /\ ApiIdle
  /\ FilterIdle
  /\ CombIdle
  /\ OrderIdle
  /\ PageIdle

ParseTime ==
  /\ ~timeParsed.called
  /\ timeParsed' = [called |-> TRUE, time |-> parseTime(timeIn, tz)]
  /\ UNCHANGED <<tz, timeIn, timeParsed_000, timeShown, timeShown_000,
                 sortVars, formatVars, apiVars, filterVars, combVars, orderVars, pageVars>>

ExtractTimeComponents ==
  /\ ~timeParsed_000.called
  /\ timeParsed_000' = [called |-> TRUE, time |-> extractTimeComponents(timeIn, tz)]
  /\ UNCHANGED <<tz, timeIn, timeParsed, timeShown, timeShown_000,
                 sortVars, formatVars, apiVars, filterVars, combVars, orderVars, pageVars>>

FormatTime ==
  /\ ~timeShown.called
  /\ timeShown' = [called |-> TRUE, s |-> formatTime(timeIn, tz)]
  /\ UNCHANGED <<tz, timeIn, timeParsed, timeParsed_000, timeShown_000,
                 sortVars, formatVars, apiVars, filterVars, combVars, orderVars, pageVars>>

FormatTime_000 ==
  /\ ~timeShown_000.called
  /\ timeShown_000' = [called |-> TRUE, v |-> formatTime_000(timeIn, tz)]
  /\ UNCHANGED <<tz, timeIn, timeParsed, timeParsed_000, timeShown,
                 sortVars, formatVars, apiVars, filterVars, combVars, orderVars, pageVars>>

TimeNext == ParseTime \/ ExtractTimeComponents \/ FormatTime \/ FormatTime_000

TimeSpec == TimeInit /\ [][TimeNext]_vars

(***************************************************************************)
(* The specification of the combiner: a date value and a time value are    *)
(* drawn; the combiner is applied to them, and to the date with the time   *)
(* '00:00:00'.                                                             *)
(***************************************************************************)
CombDateValues ==
  { Str(<<"2", "5", "/", "0", "2", "/", "2", "0", "2", "6">>),
    Str(<<"1", "/", "3", "/", "2", "0", "2", "6">>),
    Str(<<"2", "0", "2", "6", "-", "0", "2", "-", "2", "5">>),
    Str(<<"1", "9", "6", "9", "-", "1", "2", "-", "3", "1">>),
    Str(<<"2", "0", "2", "6", "-", "0", "2", "-", "2", "5", "T", "1", "8", ":", "4", "0", ":", "0", "0", ".", "0", "0", "0", "Z">>),
    Str(<<"2", "0", "2", "6", "-", "0", "2", "-", "2", "5", "T", "2", "3", ":", "3", "0", ":", "0", "0", ".", "0", "0", "0", "Z">>),
    Num(86400001),
    Str(<<>>),
    Str(<<"n", "/", "a">>),
    Undefined }

CombTimeValues ==
  { Undefined,
    Str(<<>>),
    Str(<<"s", "o", "o", "n">>),
    Num(5),
    Str(<<"0", "0", ":", "0", "0", ":", "0", "0">>),
    Str(<<"0", "0", ":", "0", "0">>),
    Str(<<"0", "6", ":", "4", "9", ":", "3", "9">>),
    Str(<<"1", "8", "9", "9", "-", "1", "2", "-", "3", "0", "T", "0", "0", ":", "0", "0", ":", "0", "0", ".", "0", "0", "0", "Z">>),
    Str(<<"2", "4", ":", "0", "0">>) }

Midnight == Str(<<"0", "0", ":", "0", "0", ":", "0", "0">>)

CombInit ==
  /\ tz \in TimeZones
  /\ \E d \in CombDateValues, t \in CombTimeValues : combIn = [date |-> d, time |-> t]
  /\ combOut = NotCombined
  /\ combOut_000 = NotCombined
  /\ SortIdle
  /\ FormatIdle
  /\ ApiIdle
  /\ FilterIdle
  /\ TimeIdle
  /\ OrderIdle
  /\ PageIdle

CreateSortableTimestamp ==
  /\ ~combOut.called
  /\ combOut' = [called   |-> TRUE,
                 ts       |-> createSortableTimestamp(combIn.date, combIn.time, tz),
                 midnight |-> createSortableTimestamp(combIn.date, Midnight, tz)]
  /\ UNCHANGED <<tz, combIn, combOut_000, sortVars, formatVars, apiVars, filterVars,
                 timeVars, orderVars, pageVars>>

ParseDateTime ==
  /\ ~combOut_000.called
  /\ combOut_000' = [called   |-> TRUE,
                     ts       |-> parseDateTime(combIn.date, combIn.time, tz),
                     midnight |-> parseDateTime(combIn.date, Midnight, tz)]
  /\ UNCHANGED <<tz, combIn, combOut, sortVars, formatVars, apiVars, filterVars,
                 timeVars, orderVars, pageVars>>

CombNext == CreateSortableTimestamp \/ ParseDateTime

CombSpec == CombInit /\ [][CombNext]_vars

(***************************************************************************)
(* The specification of the order of the combiner: two leads with          *)
(* DD/MM/YYYY dates and HH:MM or HH:MM:SS times are drawn; the combiner is *)
(* applied to both.                                                        *)
(***************************************************************************)
\* real calendar days, written DD/MM/YYYY or D/M/YYYY
OrderDates ==
  { <<"1", "/", "1", "/", "0", "0", "9", "9">>,
    <<"0", "1", "/", "0", "1", "/", "1", "9", "0", "0">>,
    <<"3", "1", "/", "1", "2", "/", "1", "9", "6", "9">>,
    <<"0", "1", "/", "0", "1", "/", "1", "9", "7", "0">>,
    <<"1", "/", "1", "/", "1", "9", "7", "0">>,
    <<"2", "9", "/", "0", "2", "/", "2", "0", "2", "4">>,
    <<"0", "1", "/", "0", "3", "/", "2", "0", "2", "4">>,
    <<"2", "5", "/", "0", "2", "/", "2", "0", "2", "6">> }

\* in-range times, written HH:MM, H:MM or HH:MM:SS
OrderTimes ==
  { <<"0", "0", ":", "0", "0">>,
    <<"0", ":", "0", "0", ":", "0", "0">>,
    <<"0", "6", ":", "4", "9">>,
    <<"0", "6", ":", "4", "9", ":", "3", "9">>,
    <<"2", "3", ":", "5", "9">>,
    <<"2", "3", ":", "5", "9", ":", "5", "9">> }

OrderLeads == {[date |-> Str(d), time |-> Str(t)] : d \in OrderDates, t \in OrderTimes}

OrderInit ==
  /\ tz \in TimeZones
  /\ pairIn \in [1..2 -> OrderLeads]
  /\ pairOut = NotCompared
  /\ pairOut_000 = NotCompared
  /\ SortIdle
  /\ FormatIdle
  /\ ApiIdle
  /\ FilterIdle
  /\ TimeIdle
  /\ CombIdle
  /\ PageIdle

CompareTimestamps ==
  /\ ~pairOut.called
  /\ pairOut' = [called |-> TRUE,
                 a |-> createSortableTimestamp(pairIn[1].date, pairIn[1].time, tz),
                 b |-> createSortableTimestamp(pairIn[2].date, pairIn[2].time, tz)]
  /\ UNCHANGED <<tz, pairIn, pairOut_000, sortVars, formatVars, apiVars, filterVars, timeVars, combVars, pageVars>>

CompareTimestamps_000 ==
  /\ ~pairOut_000.called
  /\ pairOut_000' = [called |-> TRUE,
                     a |-> parseDateTime(pairIn[1].date, pairIn[1].time, tz),
                     b |-> parseDateTime(pairIn[2].date, pairIn[2].time, tz)]
  /\ UNCHANGED <<tz, pairIn, pairOut, sortVars, formatVars, apiVars, filterVars, timeVars, combVars, pageVars>>

OrderNext == CompareTimestamps \/ CompareTimestamps_000

OrderSpec == OrderInit /\ [][OrderNext]_vars

(***************************************************************************)
(* The specification of the pages: one of the two pages is mounted; the    *)
(* user refreshes, changes the filters, fills and submits the form, while  *)
(* the endpoint answers the outstanding calls in any order.                *)
(***************************************************************************)
\* the most fetchLeads calls and addLead calls started in a behaviour
MaxLoads == 2

MaxAdds == 1

PageRaw(id, name, projectName, date, time) ==
  RawLead(id, name, projectName, Undefined, Undefined,
          Undefined, Undefined, Undefined, date, time)

\* the batches the sheet holds: the later lead first; a numeric name and a
\* record with nothing but its id
PageBatches ==
  { << PageRaw(Str(<<"A">>), Str(<<"A", "n", "n">>), Str(<<"P">>),
               Str(<<"2", "5", "/", "0", "2", "/", "2", "0", "2", "6">>), Str(<<"0", "6", ":", "4", "9", ":", "3", "9">>)),
       PageRaw(Str(<<"B">>), Str(<<"B", "e", "n">>), Undefined,
               Str(<<"3", "1", "/", "1", "2", "/", "1", "9", "6", "9">>), Str(<<"2", "3", ":", "5", "9">>)) >>,
    << PageRaw(Num(5), Num(42), Str(<<"P">>),
               Str(<<"2", "0", "2", "6", "-", "0", "2", "-", "2", "5", "T", "1", "8", ":", "4", "0", ":", "0", "0", ".", "0", "0", "0", "Z">>), Str(<<"1", "0", ":", "0", "0">>)),
       PageRaw(Str(<<"C">>), Undefined, Undefined, Undefined, Undefined) >> }

\* the answers to getLeads
PageResponses ==
  {Rejected, Resolved(FALSE, FALSE, JsonNull),
   Resolved(TRUE, TRUE, JsonObject(Absent, Absent, Str(<<"b", "o", "o", "m">>)))}
    \cup {Resolved(TRUE, TRUE, JsonArray(b)) : b \in PageBatches}

\* the answers to addLead: no answer, {} and {error: 'boom'}
PageAddResponses ==
  {Rejected,
   Resolved(TRUE, TRUE, JsonObject(Absent, Absent, Undefined)),
   Resolved(TRUE, TRUE, JsonObject(Absent, Absent, Str(<<"b", "o", "o", "m">>)))}

\* the day picked in the calendars, by timezone
PickedDate ==
  [zone \in TimeZones |-> DateObject(NewDateLocal(2026, 1, 25, 0, 0, 0, 0, zone))]

\* what the user enters in a field of the form: nothing, or a value (the
\* time input gives HH:MM)
FormInputs(field, zone) ==
  IF field = "date" THEN {NoDate, PickedDate[zone]}
  ELSE IF field = "name" THEN {Str(<<>>), Str(<<"A", "n", "n">>)}
  ELSE IF field = "projectName" THEN {Str(<<>>), Str(<<"P">>)}
  ELSE IF field = "phoneNumber" THEN {Str(<<>>), Str(<<"9", "8">>)}
  ELSE {Str(<<>>), Str(<<"0", "6", ":", "4", "5">>)}

FormFields == {"name", "projectName", "phoneNumber", "date", "time"}

PageInit ==
  /\ tz \in TimeZones
  /\ page \in {AdminDashboard, PublicLeadsPage}
  /\ ui = InitialCells
  /\ mounted = FALSE
  /\ issued = 0
  /\ inflight = {}
  /\ completed = NoneCompleted
  /\ newest = 0
  /\ fetched = <<>>
  /\ adding = FALSE
  /\ added = 0
  /\ addAnswer = Rejected
  /\ timers = 0
  /\ SortIdle
  /\ FormatIdle
  /\ ApiIdle
  /\ FilterIdle
  /\ TimeIdle
  /\ CombIdle
  /\ OrderIdle

otherVars == <<sortVars, formatVars, apiVars, filterVars, timeVars, combVars, orderVars>>

\* a call of loadLeads: the state updates, then fetchLeads() is outstanding
LoadLeadsCalled ==
  /\ issued < MaxLoads
  /\ ui' = loadLeadsBegin(ui)
  /\ issued' = issued + 1
  /\ inflight' = inflight \cup {issued + 1}

\* useEffect(() => { loadLeads(); }, [])
Mount ==
  /\ ~mounted
  /\ mounted' = TRUE
  /\ LoadLeadsCalled
  /\ UNCHANGED <<tz, page, completed, newest, fetched, adding, added, addAnswer, timers, otherVars>>

\* the Refresh button, disabled while isLoading
ClickRefresh ==
  /\ mounted
  /\ ~ui.isLoading
  /\ LoadLeadsCalled
  /\ UNCHANGED <<tz, page, mounted, completed, newest, fetched, adding, added, addAnswer, timers, otherVars>>

\* the Try Again button, rendered with the error message
ClickTryAgain ==
  /\ mounted
  /\ ~ui.isLoading
  /\ ui.error # "null"
  /\ LoadLeadsCalled
  /\ UNCHANGED <<tz, page, mounted, completed, newest, fetched, adding, added, addAnswer, timers, otherVars>>

\* a timer set by handleSubmit fires
RefreshTimerFires ==
  /\ timers > 0
  /\ timers' = timers - 1
  /\ LoadLeadsCalled
  /\ UNCHANGED <<tz, page, mounted, completed, newest, fetched, adding, added, addAnswer, otherVars>>

\* what loadLeads does when the call id settles with result
LoadLeadsSettled(id, result) ==
  /\ ui' = loadLeadsResume(page, ui, result)
  /\ inflight' = inflight \ {id}
  /\ completed' = [id |-> id, kind |-> result.kind]
  /\ newest' = IF result.kind = "returned" /\ id > newest THEN id ELSE newest
  /\ fetched' = IF result.kind = "returned" THEN result.leads ELSE fetched

\* what fetchLeads ends with in the timezone zone, over the answers of the
\* endpoint and the readings of the clock
FetchOutcomes ==
  [zone \in TimeZones |->
     UNION {{fetchLeads(resp, nows, zone) : nows \in NowSeqs(Len(BatchOf(resp)))} :
              resp \in PageResponses}]

\* the endpoint answers one of the outstanding calls of fetchLeads
FetchLeadsSettles ==
  /\ \E id \in inflight, result \in FetchOutcomes[tz] : LoadLeadsSettled(id, result)
  /\ UNCHANGED <<tz, page, mounted, issued, adding, added, addAnswer, timers, otherVars>>

\* onChange and onSelect fire when the value changes
SetSearchName ==
  /\ mounted
  /\ \E v \in {Str(<<>>), Str(<<"n">>)} \ {ui.searchName} :
       ui' = [ui EXCEPT !.searchName = v]
  /\ UNCHANGED <<tz, page, mounted, issued, inflight, completed, newest, fetched, adding, added, addAnswer, timers, otherVars>>

\* the options of the select: 'all' and the projects of the leads
SetSelectedProject ==
  /\ mounted
  /\ \E v \in ({Str(<<"a", "l", "l">>)} \cup getUniqueProjects(ui.leads))
                 \ {ui.selectedProject} :
       ui' = [ui EXCEPT !.selectedProject = v]
  /\ UNCHANGED <<tz, page, mounted, issued, inflight, completed, newest, fetched, adding, added, addAnswer, timers, otherVars>>

SetFilterDate ==
  /\ mounted
  /\ \E v \in {NoDate, PickedDate[tz]} \ {ui.filterDate} :
       ui' = [ui EXCEPT !.filterDate = v]
  /\ UNCHANGED <<tz, page, mounted, issued, inflight, completed, newest, fetched, adding, added, addAnswer, timers, otherVars>>

ClearFilters ==
  /\ mounted
  /\ ui' = clearFilters(ui)
  /\ UNCHANGED <<tz, page, mounted, issued, inflight, completed, newest, fetched, adding, added, addAnswer, timers, otherVars>>

HandleInputChange ==
  /\ page = AdminDashboard
  /\ mounted
  /\ \E field \in FormFields :
       \E v \in FormInputs(field, tz) \ {ui.formData[field]} :
         ui' = [ui EXCEPT !.formData = [ui.formData EXCEPT ![field] = v]]
  /\ UNCHANGED <<tz, page, mounted, issued, inflight, completed, newest, fetched, adding, added, addAnswer, timers, otherVars>>

\* the submit button (disabled while isSubmitting) with a field empty: a
\* toast, and nothing else
HandleSubmitRejected ==
  /\ page = AdminDashboard
  /\ mounted
  /\ ~ui.isSubmitting
  /\ ~AllFieldsFilled(ui.formData)
  /\ UNCHANGED vars

\* the submit button with every field filled: addLead is outstanding
HandleSubmit ==
  /\ page = AdminDashboard
  /\ mounted
  /\ ~ui.isSubmitting
  /\ AllFieldsFilled(ui.formData)
  /\ added < MaxAdds
  /\ ui' = handleSubmitBegin(ui)
  /\ adding' = TRUE
  /\ added' = added + 1
  /\ UNCHANGED <<tz, page, mounted, issued, inflight, completed, newest, fetched, addAnswer, timers, otherVars>>

\* the endpoint answers the outstanding call of addLead
AddLeadSettles ==
  /\ adding
  /\ \E resp \in PageAddResponses :
       /\ addAnswer' = resp
       /\ ui' = handleSubmitResume(ui, addLead(resp))
       /\ timers' = IF addLead(resp).kind = "returned" THEN timers + 1 ELSE timers
  /\ adding' = FALSE
  /\ UNCHANGED <<tz, page, mounted, issued, inflight, completed, newest, fetched, added, otherVars>>

PageNext ==
  \/ Mount
  \/ ClickRefresh
  \/ ClickTryAgain
  \/ RefreshTimerFires
  \/ FetchLeadsSettles
  \/ SetSearchName
  \/ SetSelectedProject
  \/ SetFilterDate
  \/ ClearFilters
  \/ HandleInputChange
  \/ HandleSubmitRejected
  \/ HandleSubmit
  \/ AddLeadSettles

PageSpec == PageInit /\ [][PageNext]_vars

(***************************************************************************)
(* Properties of the sorter                                                *)
(***************************************************************************)
\* the sort keys of the lead with reference r, in the two revisions
Ts(r) == createSortableTimestamp(objects[r].date, objects[r].time, tz)

Ts_000(r) == parseDateTime(objects[r].date, objects[r].time, tz)

In == arrays[leadsRef]

Out == arrays[sortedRef]

Out_000 == arrays[sortedRef_000]

Pos(seq, r) == CHOOSE i \in 1..Len(seq) : seq[i] = r

Count(seq, r) == Cardinality({i \in 1..Len(seq) : seq[i] = r})

InputUnsorted == \E i \in 1..(Len(In) - 1) : TsLess(Ts(In[i + 1]), Ts(In[i]))

\* C1: the sequence sortLeadsByDateTime returns is in ascending order of the
\* combiner: every two adjacent output leads a, b have
\* timestamp(a) <= timestamp(b) (both revisions, each with its own combiner).
C1_SortAscending ==
  /\ sortedRef # 0 =>
       \A i \in 1..(Len(Out) - 1) : TsLeq(Ts(Out[i]), Ts(Out[i + 1]))
  /\ sortedRef_000 # 0 =>
       \A i \in 1..(Len(Out_000) - 1) :
         TsLeq(Ts_000(Out_000[i]), Ts_000(Out_000[i + 1]))

C1_Witness ==
  /\ sortedRef # 0 /\ sortedRef_000 # 0
  /\ Len(In) >= 3
  /\ InputUnsorted
  /\ Cardinality({Ts(In[i]) : i \in 1..Len(In)}) >= 3

\* C2: sortLeadsByDateTime is stable: of two input leads with the same
\* timestamp, the one earlier in the input is earlier in the output.
C2_SortStable ==
  sortedRef # 0 =>
    \A i, j \in 1..Len(In) :
      (i < j /\ Ts(In[i]) = Ts(In[j])) => Pos(Out, In[i]) < Pos(Out, In[j])

C2_Witness ==
  /\ sortedRef # 0
  /\ \E i, j, k \in 1..Len(In) :
       /\ i < k /\ k < j
       /\ Ts(In[i]) = Ts(In[j])
       /\ objects[In[i]] # objects[In[j]]
       /\ TsLess(Ts(In[k]), Ts(In[i]))

\* C3: sortLeadsByDateTime does not mutate its argument: the call leaves the
\* input array (its elements and their order) and every lead object as they
\* were, and the array it returns is another array than the input.
C3_SortDoesNotMutate ==
  [][ /\ sortedRef' # sortedRef =>
           /\ arrays'[leadsRef] = arrays[leadsRef]
           /\ objects' = objects
           /\ sortedRef' # leadsRef
      /\ sortedRef_000' # sortedRef_000 =>
           /\ arrays'[leadsRef] = arrays[leadsRef]
           /\ objects' = objects
           /\ sortedRef_000' # leadsRef ]_vars

C3_Witness ==
  /\ sortedRef # 0 /\ sortedRef_000 # 0
  /\ Len(In) >= 2
  /\ InputUnsorted
  /\ Out # In

DateEmpty(r) == ~Truthy(objects[r].date)

DateParseable(r) == parseDate(objects[r].date, tz).valid

C5_EmptyDateSortsFirst ==
  sortedRef # 0 =>
    /\ \A r \in 1..Len(objects) : DateEmpty(r) => Ts(r) = Zero
    /\ \A r \in 1..Len(objects) : TsLeq(Zero, Ts(r))
    /\ \A i, j \in 1..Len(Out) :
         (DateEmpty(Out[i]) /\ DateParseable(Out[j])) => i < j

(***************************************************************************)
(* Properties of the formatter                                             *)
(***************************************************************************)
\* the three fields of a string the DD/MM/YYYY rule accepts
DMYDay(x) == split(x, "/")[1]

DMYMonth(x) == split(x, "/")[2]

DMYYear(x) == split(x, "/")[3]

\* x is accepted by the DD/MM/YYYY rule of parseDate
AcceptedDMY(v) == v.t = "string" /\ MatchesDMY(v.s)

\* x is canonical: day and month written with two digits, a real calendar
\* day, and a year from 1000 on
CanonicalDMY(v) ==
  /\ AcceptedDMY(v)
  /\ Len(DMYDay(v.s)) = 2 /\ Len(DMYMonth(v.s)) = 2
  /\ parseInt(DMYYear(v.s)) >= 1000
  /\ parseInt(DMYMonth(v.s)) \in 1..12
  /\ parseInt(DMYDay(v.s)) \in
       1..DaysInMonth(parseInt(DMYYear(v.s)), parseInt(DMYMonth(v.s)))

AnsweredJson(resp) == resp.settled = "resolved" /\ resp.ok /\ resp.json

\* C7: addLead throws to its caller, and returns no success value, whenever
\* the endpoint answers with a 2xx status and a JSON body that carries a
\* non-empty error field.
C7_AddLeadThrowsOnErrorBody ==
  (addPc = "done" /\ AnsweredJson(addResp) /\ Truthy(addResp.body.error))
    => addResult.kind = "thrown"

\* a JSON body of the form {error: string}
ErrorBody(b) ==
  b.kind = "object" /\ b.leads = Absent /\ b.data = Absent /\ b.error.t = "string"

\* what C8 says of one result of fetchLeads for the response resp, the
\* error bodies taken into account being those that satisfy counts
FetchContract(resp, result, counts(_)) ==
  /\ result.kind \in {"returned", "thrown"}
  /\ result.kind = "returned" => AnsweredJson(resp)
  /\ (resp.settled = "resolved" /\ ~resp.ok) => result.kind = "thrown"
  /\ (resp.settled = "resolved" /\ ~resp.json) => result.kind = "thrown"
  /\ (AnsweredJson(resp) /\ ErrorBody(resp.body) /\ counts(resp.body.error))
       => result.kind = "thrown"

AnyError(e) == TRUE

NonEmptyError(e) == Truthy(e)

\* C8 as stated: fetchLeads returns a lead list only for a 2xx response
\* whose body is JSON; for a non-2xx status, for a body that is not
\* parseable JSON, and for a JSON body of the form {error: string}, it
\* throws and returns no list.
C8_FetchLeadsContract ==
  /\ fetchPc = "done" => FetchContract(fetchResp, fetchResult, AnyError)
  /\ fetchResult_000 # Pending => FetchContract(fetchResp, fetchResult_000, AnyError)

\* C8 amended: the same, the error string of the body {error: string}
\* being non-empty.
C8_FetchLeadsContractNonEmptyError ==
  /\ fetchPc = "done" => FetchContract(fetchResp, fetchResult, NonEmptyError)
  /\ fetchResult_000 # Pending
       => FetchContract(fetchResp, fetchResult_000, NonEmptyError)

\* a 2xx answer {error: 'boom'} made both revisions of fetchLeads throw
C8_Witness ==
  /\ fetchPc = "done"
  /\ AnsweredJson(fetchResp)
  /\ ErrorBody(fetchResp.body)
  /\ Truthy(fetchResp.body.error)
  /\ fetchResult.kind = "thrown"
  /\ fetchResult_000.kind = "thrown"

\* in the batch raw normalized to normalized, every lead whose source record
\* omits id has an id different from that of every other lead
DistinctPlaceholders(raw, normalized) ==
  \A i \in 1..Len(raw) : \A j \in 1..Len(raw) :
    (i # j /\ ~Truthy(raw[i].id)) => normalized[i].id # normalized[j].id

\* C9: within one fetch batch, every lead whose source record omits id is
\* given a generated placeholder id that is different from the id of every
\* other lead of the same batch, generated or supplied by the source.
C9_PlaceholderIdsDistinct ==
  /\ fetchResult.kind = "returned"
       => DistinctPlaceholders(BatchOf(fetchResp), fetchResult.normalized)
  /\ fetchResult_000.kind = "returned"
       => DistinctPlaceholders(BatchOf(fetchResp), fetchResult_000.normalized)

(***************************************************************************)
(* Properties of the filter                                                *)
(***************************************************************************)
\* the filters {project: p}: no name searched, no date
OnlyProject(filters) == ~Truthy(filters.searchName) /\ ~filters.date.set

\* every lead returned has the project name queried
ReturnsOnlyProject ==
  \A i \in 1..Len(filterOut.leads) :
    filterOut.leads[i].projectName = filterArgs.project

\* C10 as stated: for every list of leads and every non-empty project query
\* p, filterLeads(leads, {project: p}) returns only leads whose projectName
\* equals p exactly.
C10_ProjectFilterExact ==
  (filterOut.kind = "returned" /\ OnlyProject(filterArgs) /\ Truthy(filterArgs.project))
    => ReturnsOnlyProject

\* C10 amended: the same for every non-empty project query p other than
\* 'all'.
C10_ProjectFilterExactNotAll ==
  (/\ filterOut.kind = "returned"
   /\ OnlyProject(filterArgs)
   /\ Truthy(filterArgs.project)
   /\ filterArgs.project # Str(<<"a", "l", "l">>))
    => ReturnsOnlyProject

\* of two leads, one of project 'P' and one of another project, the query
\* 'P' returned the one
C10_Witness ==
  /\ filterOut.kind = "returned"
  /\ OnlyProject(filterArgs)
  /\ filterArgs.project = Str(<<"P">>)
  /\ Len(filterIn) = 2
  /\ filterOut.kept = <<2>>
  /\ filterIn[1].projectName = Str(<<"p">>)

\* out is a subsequence of input: its elements are elements of input, at
\* positions of input that strictly increase
Subsequence(input, out) ==
  /\ Len(out.leads) = Len(out.kept)
  /\ \A i \in 1..Len(out.kept) :
       out.kept[i] \in 1..Len(input) /\ out.leads[i] = input[out.kept[i]]
  /\ \A i \in 1..(Len(out.kept) - 1) : out.kept[i] < out.kept[i + 1]

\* leads is in ascending order of createSortableTimestamp
SortedLeads(leads) ==
  \A i \in 1..(Len(leads) - 1) :
    TsLeq(createSortableTimestamp(leads[i].date, leads[i].time, tz),
          createSortableTimestamp(leads[i + 1].date, leads[i + 1].time, tz))

\* C11: for every list of leads and every combination of filter criteria,
\* what filterLeads returns is a subsequence of the input (only input leads,
\* each at most once, in the order of the input), so a sorted input gives a
\* sorted output.
C11_FilterSubsequence ==
  /\ filterOut.kind = "returned"
       => /\ Subsequence(filterIn, filterOut)
          /\ SortedLeads(filterIn) => SortedLeads(filterOut.leads)
  /\ filterOut_000.kind = "returned"
       => /\ Subsequence(filterIn, filterOut_000)
          /\ SortedLeads(filterIn) => SortedLeads(filterOut_000.leads)

\* a name search kept two different leads, in both revisions
C11_Witness ==
  /\ Truthy(filterArgs.searchName)
  /\ filterOut.kind = "returned"
  /\ filterOut_000.kind = "returned"
  /\ filterOut.kept = <<1, 2>>
  /\ filterIn[1] # filterIn[2]
  /\ SortedLeads(filterIn)

\* the lead passes the criteria other than the date
PassesOtherCriteria(lead) ==
  filterCallback(lead, Filters(filterArgs.searchName, filterArgs.project, NoDate), tz)
    = "keep"

\* the parsed date of a lead is a date of the calendar day of the criterion
SameCalendarDay(parsed, criterion) ==
  /\ parsed.valid
  /\ criterion.valid
  /\ getFullYear(parsed, tz) = getFullYear(criterion, tz)
  /\ getMonth(parsed, tz) = getMonth(criterion, tz)
  /\ getDate(parsed, tz) = getDate(criterion, tz)

\* out holds exactly the leads that pass the other criteria and whose date,
\* parsed by parse, is of the calendar day of the date criterion
DateFilterExact(out, parse(_, _)) ==
  (out.kind = "returned" /\ filterArgs.date.set)
    => \A i \in 1..Len(filterIn) :
         (\E k \in 1..Len(out.kept) : out.kept[k] = i)
           <=> /\ PassesOtherCriteria(filterIn[i])
               /\ SameCalendarDay(parse(filterIn[i].date, tz), filterArgs.date.t)

\* C12: when a date criterion is set, filterLeads returns exactly the leads,
\* among those passing the other criteria, whose date parses to the calendar
\* year, month and day of the criterion; a lead whose date is empty or
\* unparseable is not returned.
C12_DateFilterExact ==
  /\ DateFilterExact(filterOut, parseDate)
  /\ DateFilterExact(filterOut_000, parseDate_000)

(***************************************************************************)
(* Properties of the time parser                                           *)
(***************************************************************************)
\* the time part of an ISO string, and its colon-separated fields
IsoTimeOf(s) == split(s, "T")[2]

WrittenFields(s) == split(IsoTimeBody(IsoTimeOf(s)), ":")

\* the hours, minutes and seconds written in the fields p
WrittenClock(p) ==
  ClockTime(parseInt(p[1]), parseInt(p[2]),
            IF Len(p) = 3 THEN parseInt(SubSeq(p[3], 1, 2)) ELSE 0)

\* v is an ISO 8601 date-time ending in Z
IsoTimeZ(v) ==
  /\ v.t = "string"
  /\ Len(split(v.s, "T")) = 2
  /\ v.s[Len(v.s)] = "Z"
  /\ IsoDatePart(split(v.s, "T")[1])
  /\ IsoTimePart(IsoTimeOf(v.s))

\* parsed is the clock time written in timeIn, and every timezone offset
\* gives it
WrittenClockEverywhere(parsed, parse(_, _)) ==
  /\ parsed.time = WrittenClock(WrittenFields(timeIn.s))
  /\ \A z \in TimeZones : parse(timeIn, z) = parsed.time

\* C13 as stated: for an ISO 8601 time value ending in Z the Time Parser
\* returns the hours, minutes and seconds written in the string, the same
\* for every local timezone offset of the runtime.
C13_IsoTimeAsWritten ==
  IsoTimeZ(timeIn)
    => /\ timeParsed.called => WrittenClockEverywhere(timeParsed, parseTime)
       /\ timeParsed_000.called
            => WrittenClockEverywhere(timeParsed_000, extractTimeComponents)

\* C13 amended: the same for the values whose hours are written 00 to 23
\* (24:00:00 is returned as 0:00:00).
C13_IsoTimeAsWrittenBefore24 ==
  (IsoTimeZ(timeIn) /\ WrittenClock(WrittenFields(timeIn.s)).hours < 24)
    => /\ timeParsed.called => WrittenClockEverywhere(timeParsed, parseTime)
       /\ timeParsed_000.called
            => WrittenClockEverywhere(timeParsed_000, extractTimeComponents)

\* both parsers returned 6:49:39 for 1899-12-30T06:49:39.000Z in a timezone
\* that is not UTC
C13_Witness ==
  /\ tz # 0
  /\ timeIn = Str(<<"1", "8", "9", "9", "-", "1", "2", "-", "3", "0", "T",
                    "0", "6", ":", "4", "9", ":", "3", "9", ".", "0", "0", "0", "Z">>)
  /\ timeParsed = [called |-> TRUE, time |-> ClockTime(6, 49, 39)]
  /\ timeParsed_000 = [called |-> TRUE, time |-> ClockTime(6, 49, 39)]

\* the fields of a clock time are those of a time of day
InRange(time) ==
  time.hours \in 0..23 /\ time.minutes \in 0..59 /\ time.seconds \in 0..59

\* C14: every ClockTime the Time Parser returns, for any input value, has
\* hours in 0..23, minutes in 0..59 and seconds in 0..59; an input that does
\* not denote such a clock time yields 'no time'.
C14_ClockTimeInRange ==
  /\ (timeParsed.called /\ timeParsed.time.ok) => InRange(timeParsed.time)
  /\ (timeParsed_000.called /\ timeParsed_000.time.ok) => InRange(timeParsed_000.time)

(***************************************************************************)
(* Properties of the combiner                                              *)
(***************************************************************************)
\* C15: a record without a time sorts as if its time were midnight: for
\* every parseable date value d, in any of the accepted date encodings, the
\* combiner gives the same timestamp for (d, absent or unparseable time) as
\* for (d, '00:00:00').
C15_NoTimeIsMidnight ==
  /\ (/\ combOut.called
      /\ combIn.date.t = "string"
      /\ parseDate(combIn.date, tz).valid
      /\ ~parseTime(combIn.time, tz).ok)
       => combOut.ts = combOut.midnight
  /\ (/\ combOut_000.called
      /\ combIn.date.t = "string"
      /\ parseDate_000(combIn.date, tz).valid
      /\ ~extractTimeComponents(combIn.time, tz).ok)
       => combOut_000.ts = combOut_000.midnight

\* the Date is the local midnight of the day, month and year written in the
\* DD/MM/YYYY string x
WrittenDMYDate(date, x, zone) ==
  /\ date.valid
  /\ getDate(date, zone) = parseInt(DMYDay(x))
  /\ getMonth(date, zone) + 1 = parseInt(DMYMonth(x))
  /\ getFullYear(date, zone) = parseInt(DMYYear(x))
  /\ LocalTime(date, zone).ms = 0

\* C16: for every string that matches the DD/MM/YYYY pattern (1-2 digit day,
\* 1-2 digit month, 4-digit year) parseDate, in both revisions, yields a date
\* whose day, month and year are exactly the three numbers written in the
\* string, with the time of day zeroed.
C16_DMYAsWritten ==
  /\ (dateParsed.called /\ AcceptedDMY(dateIn))
       => WrittenDMYDate(dateParsed.date, dateIn.s, tz)
  /\ (dateParsed_000.called /\ AcceptedDMY(dateIn))
       => WrittenDMYDate(dateParsed_000.date, dateIn.s, tz)

YMDYear(x) == split(x, "-")[1]

YMDMonth(x) == split(x, "-")[2]

YMDDay(x) == split(x, "-")[3]

\* v is accepted by the YYYY-MM-DD rule of parseDate
AcceptedYMD(v) == v.t = "string" /\ MatchesYMD(v.s)

\* the Date is the local midnight of the year, month and day written in the
\* YYYY-MM-DD string x
WrittenYMDDate(date, x, zone) ==
  /\ date.valid
  /\ getFullYear(date, zone) = parseInt(YMDYear(x))
  /\ getMonth(date, zone) + 1 = parseInt(YMDMonth(x))
  /\ getDate(date, zone) = parseInt(YMDDay(x))
  /\ LocalTime(date, zone).ms = 0

\* C17: for every string of the form YYYY-MM-DD parseDate, in both
\* revisions, yields the date with exactly the written year, month and day
\* at local midnight, whatever the timezone offset of the runtime.
C17_YMDAsWritten ==
  /\ (dateParsed.called /\ AcceptedYMD(dateIn))
       => WrittenYMDDate(dateParsed.date, dateIn.s, tz)
  /\ (dateParsed_000.called /\ AcceptedYMD(dateIn))
       => WrittenYMDDate(dateParsed_000.date, dateIn.s, tz)

\* C18: formatDate and formatTime, in both revisions, return the placeholder
\* '-' for every value that is absent, empty or that the corresponding parser
\* cannot parse (and so never the raw input).
C18_PlaceholderWhenUnparseable ==
  /\ (dateOut.called /\ ~parseDate(dateIn, tz).valid)
       => dateOut.s = Dash
  /\ (dateOut_000.called /\ ~parseDate_000(dateIn, tz).valid)
       => dateOut_000.v = Str(Dash)
  /\ (timeShown.called /\ ~parseTime(timeIn, tz).ok)
       => timeShown.s = Dash
  /\ (timeShown_000.called /\ ~extractTimeComponents(timeIn, tz).ok)
       => timeShown_000.v = Str(Dash)

\* C19: sortLeadsByDateTime is idempotent: the array it returns for the
\* array an earlier call returned holds the same leads in the same order,
\* element by element.
C19_SortIdempotent ==
  resortedRef # 0 => arrays[resortedRef] = arrays[sortedRef]

C19_Witness ==
  /\ resortedRef # 0
  /\ resortedRef # sortedRef
  /\ Len(In) >= 3
  /\ InputUnsorted
  /\ \E i, j \in 1..Len(In) : i < j /\ Ts(In[i]) = Ts(In[j])
  /\ arrays[resortedRef] = Out

\* every field of the normalized lead is a string
AllFieldsStrings(lead) ==
  /\ lead.id.t = "string" /\ lead.name.t = "string"
  /\ lead.projectName.t = "string" /\ lead.phoneNumber.t = "string"
  /\ lead.date.t = "string" /\ lead.time.t = "string"

\* the fields the source record omits are the empty string
AbsentFieldsEmpty(raw, lead) ==
  /\ raw.name = Undefined => lead.name = Str(<<>>)
  /\ (raw.projectName = Undefined /\ raw.project_name = Undefined
        /\ raw.project = Undefined) => lead.projectName = Str(<<>>)
  /\ (raw.phoneNumber = Undefined /\ raw.phone_number = Undefined
        /\ raw.phone = Undefined) => lead.phoneNumber = Str(<<>>)
  /\ raw.date = Undefined => lead.date = Str(<<>>)
  /\ raw.time = Undefined => lead.time = Str(<<>>)

\* filterLeads with a name searched returns for the list holding lead alone
SearchReturns(lead, zone) ==
  filterLeads(<<lead>>, Filters(Str(<<"a">>), Undefined, NoDate), zone).kind
    = "returned"

\* C20: every field of every lead normalizeLead produces (id, name,
\* projectName, phoneNumber, date, time) is a string whatever the type of the
\* source field, an absent field becomes the empty string, and filterLeads
\* does not fail on a normalized lead.
C20_NormalizedFieldsAreStrings ==
  fetchResult.kind = "returned" =>
    \A i \in 1..Len(fetchResult.normalized) :
      /\ AllFieldsStrings(fetchResult.normalized[i])
      /\ AbsentFieldsEmpty(BatchOf(fetchResp)[i], fetchResult.normalized[i])
      /\ SearchReturns(fetchResult.normalized[i], tz)

(***************************************************************************)
(* Properties of the order of the combiner                                 *)
(***************************************************************************)
\* the seconds written in a time HH:MM(:SS), 0 when none is written
WrittenSeconds(p) == IF Len(p) = 3 THEN parseInt(p[3]) ELSE 0

\* (year, month, day, hours, minutes, seconds) as written in the lead
WrittenTuple(lead) ==
  <<parseInt(DMYYear(lead.date.s)), parseInt(DMYMonth(lead.date.s)),
    parseInt(DMYDay(lead.date.s)),
    parseInt(split(lead.time.s, ":")[1]), parseInt(split(lead.time.s, ":")[2]),
    WrittenSeconds(split(lead.time.s, ":"))>>

\* s lexicographically precedes t
TupleLess(s, t) ==
  \E i \in 1..Len(s) : s[i] < t[i] /\ \A j \in 1..(i - 1) : s[j] = t[j]

\* the timestamps out.a and out.b are ordered as the tuples written
OrderedAsWritten(out) ==
  /\ TsLess(out.a, out.b) <=> TupleLess(WrittenTuple(pairIn[1]), WrittenTuple(pairIn[2]))
  /\ out.a = out.b <=> WrittenTuple(pairIn[1]) = WrittenTuple(pairIn[2])

\* C24: for any two leads whose dates are real calendar days in DD/MM/YYYY
\* form and whose times are in-range HH:MM or HH:MM:SS values, the combiner
\* (of both revisions) gives the first a smaller timestamp exactly when its
\* (year, month, day, hours, minutes, seconds) tuple lexicographically
\* precedes the other's, and equal timestamps exactly when the tuples are equal.
C24_OrderedAsCalendar ==
  /\ pairOut.called => OrderedAsWritten(pairOut)
  /\ pairOut_000.called => OrderedAsWritten(pairOut_000)

(***************************************************************************)
(* Properties of the pages                                                 *)
(***************************************************************************)
\* the rows of the table, when the filter returned them, are ascending
RowsAscending(rows) == rows.kind = "returned" => SortedLeads(rows.leads)

\* C21: in both pages, in every state reachable by loads, refreshes,
\* add-lead submissions and filter changes, the rows shown (filteredLeads)
\* are in ascending order of createSortableTimestamp.
C21_RowsAscending == RowsAscending(filteredLeads(ui, tz))

\* AdminDashboard after an add and two loads, a name searched: two rows are
\* shown, the lead the sheet holds second being the first
C21_Witness ==
  /\ page = AdminDashboard
  /\ added = 1 /\ ~adding
  /\ issued = 2 /\ inflight = {}
  /\ Truthy(ui.searchName)
  /\ filteredLeads(ui, tz).kind = "returned"
  /\ Len(filteredLeads(ui, tz).leads) = 2
  /\ filteredLeads(ui, tz).leads[1].id = Str(<<"B">>)

\* the step on which a load of the page ends: its fetch settled
LoadEnds == completed' # completed

\* C22: a load whose fetch fails ends with isLoading false, the error set
\* and the collection exactly as before, the buttons that start a load
\* enabled again; the collection changes only on a load whose fetch
\* succeeded, which replaces it wholesale by what the fetch returned.
C22_FailedLoadRetryable ==
  [][/\ (LoadEnds /\ completed'.kind = "thrown") =>
          /\ ui'.leads = ui.leads
          /\ ~ui'.isLoading
          /\ ui'.error = LoadError(page)
     /\ (LoadEnds /\ completed'.kind = "returned") => ui'.leads = fetched'
     /\ ui'.leads # ui.leads => (LoadEnds /\ completed'.kind = "returned")]_vars

\* a load failed after an earlier one had stored leads: the leads are still
\* there, the message is shown with its Try Again button
C22_Witness ==
  /\ completed.kind = "thrown"
  /\ inflight = {}
  /\ ui.leads # <<>>
  /\ ~ui.isLoading
  /\ ui.error = LoadError(page)

\* C23: fetches that overlap (the refresh scheduled after an add issued while
\* an earlier load is outstanding) settle in either order, and the leads
\* displayed are those of the response applied last, the earlier-issued one
\* included: nothing orders the responses by their issue.
C23_LastAppliedDisplayed == ui.leads = fetched

\* AdminDashboard, the refresh scheduled by an add issued before the first
\* load had settled: the first load's response is applied after the second's
\* and its leads stay displayed
C23_Witness ==
  /\ page = AdminDashboard
  /\ added = 1 /\ timers = 0
  /\ issued = 2 /\ inflight = {}
  /\ completed = [id |-> 1, kind |-> "returned"]
  /\ newest = 2
  /\ ui.leads = fetched /\ ui.leads # <<>>
  /\ ~ui.isLoading /\ ui.error = "null"

\* C25: in AdminDashboard, isLoading is false only if no fetchLeads started
\* by loadLeads is in flight.
C25_NotLoadingOnlyWhenIdle ==
  (page = AdminDashboard /\ ~ui.isLoading) => inflight = {}

\* C26: in AdminDashboard, once no load is in flight, the error message is
\* shown exactly when the fetch that completed most recently failed.
C26_ErrorIffLastFetchFailed ==
  (page = AdminDashboard /\ inflight = {} /\ completed.kind # "none") =>
    (ErrorShown(ui) <=> completed.kind = "thrown")

\* the backend accepted the add: it answered 2xx, and not with a JSON
\* object that carries an error
AddAccepted(resp) ==
  /\ resp.settled = "resolved" /\ resp.ok
  /\ ~(resp.json /\ resp.body.kind = "object" /\ Truthy(resp.body.error))

\* the step on which a submission of the form ends: addLead settled
SubmitEnds == adding /\ ~adding'

\* C27: handleSubmit calls addLead only when name, projectName, phoneNumber,
\* date and time are all non-empty; the submission ends with isSubmitting
\* false; the form is reset and one refresh scheduled exactly when the
\* backend accepted the add, and when the add failed the form contents are
\* kept and no refresh is scheduled.
C27_ResetIffAccepted ==
  [][/\ added' # added => AllFieldsFilled(ui.formData)
     /\ SubmitEnds => ~ui'.isSubmitting
     /\ (SubmitEnds /\ AddAccepted(addAnswer')) =>
          (ui'.formData = EmptyForm /\ timers' = timers + 1)
     /\ (SubmitEnds /\ ~AddAccepted(addAnswer')) =>
          (ui'.formData = ui.formData /\ timers' = timers)]_vars

====
